---- MODULE Spec2Model ----
(***************************************************************************)
(* Model of the resume analysis core of resume_creator:                    *)
(*   utils/scoring_engine.py   ScoringEngine                               *)
(*   utils/resume_analyzer.py  ResumeAnalyzer                              *)
(*                                                                         *)
(* Conventions                                                             *)
(*  - A Python/JSON value is a tagged record: JNull, JNum(n), JStr(s),     *)
(*    JArr(a), JObj(kv).  A string is a sequence of chunks (each chunk a   *)
(*    TLA+ string standing for some characters; " " is whitespace).        *)
(*    An object keeps its keys in insertion order as a sequence of         *)
(*    <<key, value>> pairs, as a Python dict does.                         *)
(*  - The outcome of a Python call is Return(v) or Raise(e).               *)
(*  - The Completion Capability (OpenAIClient.chat_completion) is an input *)
(*    of the model: every call either raises or returns a content, and the *)
(*    content is None, a text that is not JSON, or the text of a JSON      *)
(*    value.  json.loads is modelled by JsonLoads on that text.            *)
(*  - Scores are whole numbers; the weights are kept in hundredths, the    *)
(*    weighted sum in hundredths of a point and overall_score in tenths.   *)
(***************************************************************************)
EXTENDS Integers, Sequences, FiniteSets, TLC

VARIABLES
    dimension_weights,        \* the dict object ScoringEngine.DIMENSION_WEIGHTS
    pc,                       \* position of the analyze_resume call
    overlapping_skills,       \* analyze_resume local (step 1)
    skill_gaps,               \* analyze_resume local (step 2)
    results,                  \* evaluate_all_dimensions local / dimension_results
    overall_recommendations,  \* analyze_resume local (step 4)
    outcome,                  \* what analyze_resume gave its caller
    calls,                    \* completion calls made so far, in order, and whether each raised
    dim_call,                 \* SpecDim: the capability's answer to one evaluate_dimension
    dim_result,               \* SpecDim: what evaluate_dimension gave for it
    arg,                      \* one call of a single method: what it is given
    ret,                      \* one call of a single method: what it gave back
    mock,                     \* the canned answers of a mocked capability, or NoValue
    history,                  \* the analyze_resume calls that have ended, oldest first
    client_instance,          \* openai_client._client_instance
    api_key,                  \* whether OPENAI_API_KEY is set in the environment
    attempts,                 \* how many times OpenAIClient() has been called
    gets,                     \* the get_openai_client calls so far: who called, what it got
    resumes,                  \* the names of the files data/<name>.txt written by upload_resume
    analyses,                 \* the records stored as data/analysis/<analysis_id>.json
    optimized,                \* the names of the files data/optimized_resumes/<name>.txt
    reports,                  \* the names of the files reports/<name>.pdf
    uuids,                    \* how many values uuid4() has given so far
    request,                  \* the POST /api/analyze request whose analysis is under way, or NoValue
    last_response,            \* the last response of the HTTP layer, or NoValue
    succeeded                 \* the requests answered 200 so far: endpoint and id

vars == <<dimension_weights, pc, overlapping_skills, skill_gaps, results, overall_recommendations,
          outcome, calls, dim_call, dim_result, arg, ret, mock, history,
          client_instance, api_key, attempts, gets,
          resumes, analyses, optimized, reports, uuids, request, last_response, succeeded>>

clientVars == <<client_instance, api_key, attempts, gets>>

storeVars == <<resumes, analyses, optimized, reports>>
httpVars == <<resumes, analyses, optimized, reports, uuids, request, last_response, succeeded>>

callVars == <<arg, ret>>
runVars == <<mock, history>>

-----------------------------------------------------------------------------
(* Python values *)

JNull == [t |-> "null"]
JNum(n) == [t |-> "num", n |-> n]
JStr(s) == [t |-> "str", s |-> s]
JArr(a) == [t |-> "arr", a |-> a]
JObj(kv) == [t |-> "obj", kv |-> kv]

Return(v) == [ok |-> TRUE, v |-> v]
Raise(e) == [ok |-> FALSE, e |-> e]

None == [content |-> "none"]
NotJson == [content |-> "text"]
JsonText(v) == [content |-> "json", value |-> v]

\* json.loads(response): TypeError on None, JSONDecodeError on a text that is
\* not JSON, else the value the text encodes.
JsonLoads(response) ==
    CASE response.content = "none" -> Raise("TypeError")
      [] response.content = "text" -> Raise("JSONDecodeError")
      [] OTHER -> Return(response.value)

\* dict access
HasKey(obj, key) == \E i \in 1..Len(obj.kv) : obj.kv[i][1] = key
KeyIndex(obj, key) == CHOOSE i \in 1..Len(obj.kv) : obj.kv[i][1] = key
Get(obj, key) == obj.kv[KeyIndex(obj, key)][2]
Put(obj, key, val) ==
    IF HasKey(obj, key)
    THEN JObj([obj.kv EXCEPT ![KeyIndex(obj, key)] = <<key, val>>])
    ELSE JObj(Append(obj.kv, <<key, val>>))
Keys(obj) == {obj.kv[i][1] : i \in 1..Len(obj.kv)}

\* `key in value` for a parsed value: dict membership, list membership,
\* substring of a str; TypeError for a number or None.
Contains(value, key) ==
    CASE value.t = "obj" -> Return(HasKey(value, key))
      [] value.t = "arr" -> Return(\E i \in 1..Len(value.a) : value.a[i] = JStr(<<key>>))
      [] value.t = "str" -> Return(\E i \in 1..Len(value.s) : value.s[i] = key)
      [] OTHER -> Raise("TypeError")

\* len(value): defined for str, list and dict.
HasLen(value) == value.t \in {"str", "arr", "obj"}
\* value[:n]: defined for str and list.
Sliceable(value) == value.t \in {"str", "arr"}
\* bool(value)
Truthy(value) ==
    CASE value.t = "null" -> FALSE
      [] value.t = "num" -> value.n # 0
      [] value.t = "str" -> Len(value.s) > 0
      [] value.t = "arr" -> Len(value.a) > 0
      [] value.t = "obj" -> Len(value.kv) > 0

Min(a, b) == IF a < b THEN a ELSE b
Max(a, b) == IF a > b THEN a ELSE b

-----------------------------------------------------------------------------
(* ScoringEngine *)

DIMENSIONS == <<
    "Relevance of Experience",
    "Impact and Achievements",
    "Technical Proficiency",
    "Clarity and Structure",
    "Quantifiable Results",
    "Communication and Writing Quality",
    "Growth and Progression",
    "Innovation and Problem-Solving",
    "ATS Compatibility" >>

DimensionNames == {DIMENSIONS[i] : i \in 1..Len(DIMENSIONS)}

\* (mutant) one weight mistyped: 0.08 for Innovation and Problem-Solving
DIMENSION_WEIGHTS_mistyped ==
    ( "Relevance of Experience" :> 20 ) @@
    ( "Impact and Achievements" :> 15 ) @@
    ( "Technical Proficiency" :> 15 ) @@
    ( "Clarity and Structure" :> 10 ) @@
    ( "Quantifiable Results" :> 10 ) @@
    ( "Communication and Writing Quality" :> 8 ) @@
    ( "Growth and Progression" :> 8 ) @@
    ( "Innovation and Problem-Solving" :> 8 ) @@
    ( "ATS Compatibility" :> 5 )

\* the dict literal of the class body, in hundredths: 0.20 is 20
DIMENSION_WEIGHTS ==
    ( "Relevance of Experience" :> 20 ) @@
    ( "Impact and Achievements" :> 15 ) @@
    ( "Technical Proficiency" :> 15 ) @@
    ( "Clarity and Structure" :> 10 ) @@
    ( "Quantifiable Results" :> 10 ) @@
    ( "Communication and Writing Quality" :> 8 ) @@
    ( "Growth and Progression" :> 8 ) @@
    ( "Innovation and Problem-Solving" :> 9 ) @@
    ( "ATS Compatibility" :> 5 )

ScoreLow == 0
ScoreHigh == 100

\* (mutant) the upper bound forgotten: max(0, score)
ClampNoUpper(score) == Max(ScoreLow, score)

\* max(0, min(100, score))
Clamp(score) == Max(ScoreLow, Min(ScoreHigh, score))

RequiredKeys == <<"score", "analysis", "recommendations">>

\* all(key in result for key in [...]): the first key that is missing ends it
\* with False, a value that supports no `in` raises.
RECURSIVE AllKeysIn(_, _)
AllKeysIn(result, i) ==
    IF i > Len(RequiredKeys) THEN Return(TRUE)
    ELSE LET c == Contains(result, RequiredKeys[i])
         IN  IF ~c.ok THEN c
             ELSE IF ~c.v THEN Return(FALSE)
             ELSE AllKeysIn(result, i + 1)

PlaceholderRecommendation == <<"Unable to generate recommendations due to an error.">>

\* the dict of the except branch
DegradedResult(e) ==
    JObj(<< <<"score", JNum(0)>>,
            <<"analysis", JStr(<<"Error evaluating this dimension: ", e>>)>>,
            <<"recommendations", JArr(<<JStr(PlaceholderRecommendation)>>)>> >>)

\* (mutant) a dict with a numeric score is accepted whatever else it lacks, the
\* missing keys filled in
EvaluateParsedPartial(response) ==
    LET parsed == JsonLoads(response) IN
    IF ~parsed.ok THEN parsed
    ELSE LET result == parsed.v IN
         IF result.t # "obj" THEN Raise("TypeError")
         ELSE IF ~HasKey(result, "score") THEN Raise("ValueError: Invalid response structure from OpenAI")
         ELSE IF Get(result, "score").t # "num" THEN Raise("TypeError")
         ELSE LET a == IF HasKey(result, "analysis") THEN result
                       ELSE Put(result, "analysis", JStr(<<>>))
                  r == IF HasKey(a, "recommendations") THEN a
                       ELSE Put(a, "recommendations", JArr(<<>>))
              IN  Return(Put(r, "score", JNum(Clamp(Get(result, "score").n))))

\* the body of the try block, from json.loads to `return result`
EvaluateParsed(response) ==
    LET parsed == JsonLoads(response) IN
    IF ~parsed.ok THEN parsed
    ELSE LET result == parsed.v
             has == AllKeysIn(result, 1)
         IN  IF ~has.ok THEN has
             ELSE IF ~has.v THEN Raise("ValueError: Invalid response structure from OpenAI")
             ELSE IF result.t # "obj" THEN Raise("TypeError")       \* result["score"]
             ELSE IF Get(result, "score").t # "num" THEN Raise("TypeError")   \* min(100, score)
             ELSE IF ~Sliceable(Get(result, "analysis")) THEN Raise("TypeError")
             ELSE IF ~HasLen(Get(result, "recommendations")) THEN Raise("TypeError")
             ELSE Return(Put(result, "score", JNum(Clamp(Get(result, "score").n))))

\* (mutant) `except ValueError`: parse and structure errors are caught, a failed
\* call and a TypeError are not
evaluate_dimension_narrow_except(completion) ==
    LET body == IF completion.ok THEN EvaluateParsed(completion.v) ELSE completion
    IN  IF body.ok THEN Return(body.v)
        ELSE IF body.e \in {"JSONDecodeError", "ValueError: Invalid response structure from OpenAI"}
        THEN Return(DegradedResult(body.e))
        ELSE body

\* evaluate_dimension, given what chat_completion did: try / except Exception
evaluate_dimension(completion) ==
    LET body == IF completion.ok THEN EvaluateParsed(completion.v) ELSE completion
    IN  IF body.ok THEN Return(body.v) ELSE Return(DegradedResult(body.e))

\* (mutant) the scores taken in the order the results were stored in
RECURSIVE WeightedSumByPosition(_, _, _)
WeightedSumByPosition(res, weights, i) ==
    IF i > Len(DIMENSIONS) THEN 0
    ELSE res.kv[i][2].kv[KeyIndex(res.kv[i][2], "score")][2].n * weights[DIMENSIONS[i]]
         + WeightedSumByPosition(res, weights, i + 1)

\* in hundredths of a point: sum(results[dim]["score"] * DIMENSION_WEIGHTS[dim])
RECURSIVE WeightedSum(_, _, _)
WeightedSum(res, weights, i) ==
    IF i > Len(DIMENSIONS) THEN 0
    ELSE Get(Get(res, DIMENSIONS[i]), "score").n * weights[DIMENSIONS[i]]
         + WeightedSum(res, weights, i + 1)

\* (mutant) the sum truncated to one decimal instead of rounded
Round1Truncated(h) == {h \div 10}

\* round(x, 1) of the float sum, in tenths, for x = h / 100.  The float sum
\* differs from h / 100 by a few units in the last place, so when h / 100 lies
\* exactly halfway between two tenths the sum may fall on either side: both
\* neighbours are possible results there.
Round1(h) ==
    IF h % 10 < 5 THEN {h \div 10}
    ELSE IF h % 10 > 5 THEN {h \div 10 + 1}
    ELSE {h \div 10, h \div 10 + 1}

JFloat1(tenths) == [t |-> "float1", tenths |-> tenths]

\* results["dimension_weights"] = self.DIMENSION_WEIGHTS: the class table itself
WeightsRef == [t |-> "ref", to |-> "ScoringEngine.DIMENSION_WEIGHTS"]

\* the tail of evaluate_all_dimensions, after the loop: the aggregates it may return
Aggregates(res, weights) ==
    {Put(Put(res, "overall_score", JFloat1(o)), "dimension_weights", WeightsRef) :
        o \in Round1(WeightedSum(res, weights, 1))}

WeakThreshold == 70
FocusCount == 3

\* str(value) inside an f-string
PyStr(value) ==
    CASE value.t = "str" -> value.s
      [] value.t = "num" -> <<ToString(value.n)>>
      [] value.t = "null" -> <<"None">>
      [] OTHER -> <<"<repr>">>

\* (mutant) value[-1] for value[0]
FirstItemLast(value) ==
    CASE value.t = "arr" -> Return(value.a[Len(value.a)])
      [] value.t = "str" -> Return(JStr(<<value.s[Len(value.s)]>>))
      [] value.t = "obj" -> Raise("KeyError: -1")
      [] OTHER -> Raise("TypeError")

\* value[0] of a truthy value
FirstItem(value) ==
    CASE value.t = "arr" -> Return(value.a[1])
      [] value.t = "str" -> Return(JStr(<<value.s[1]>>))
      [] value.t = "obj" -> Raise("KeyError: 0")
      [] OTHER -> Raise("TypeError")

\* (mutant) the comprehension with `<= 70` for `< 70`
RECURSIVE WeakDimensionsUpTo70(_, _)
WeakDimensionsUpTo70(res, i) ==
    IF i > Len(res.kv) THEN <<>>
    ELSE LET dim == res.kv[i][1]
             data == res.kv[i][2]
         IN  IF dim \in DimensionNames /\ Get(data, "score").n <= WeakThreshold
             THEN << <<dim, Get(data, "score").n>> >> \o WeakDimensionsUpTo70(res, i + 1)
             ELSE WeakDimensionsUpTo70(res, i + 1)

\* the list comprehension: (dim, score) of the items of dimension_results, in
\* the dict's order, whose key is a dimension and whose score is below 70
RECURSIVE WeakDimensions(_, _)
WeakDimensions(res, i) ==
    IF i > Len(res.kv) THEN <<>>
    ELSE LET dim == res.kv[i][1]
             data == res.kv[i][2]
         IN  IF dim \in DimensionNames /\ Get(data, "score").n < WeakThreshold
             THEN << <<dim, Get(data, "score").n>> >> \o WeakDimensions(res, i + 1)
             ELSE WeakDimensions(res, i + 1)

\* (mutant) a sort that is not stable: x goes before the elements of its score
RECURSIVE InsertBeforeEqual(_, _)
InsertBeforeEqual(sorted, x) ==
    IF sorted = <<>> THEN <<x>>
    ELSE IF Head(sorted)[2] < x[2] THEN <<Head(sorted)>> \o InsertBeforeEqual(Tail(sorted), x)
    ELSE <<x>> \o sorted

\* list.sort(key=score) is stable: x goes after every element whose score is
\* not greater than its own
RECURSIVE InsertByScore(_, _)
InsertByScore(sorted, x) ==
    IF sorted = <<>> THEN <<x>>
    ELSE IF Head(sorted)[2] <= x[2] THEN <<Head(sorted)>> \o InsertByScore(Tail(sorted), x)
    ELSE <<x>> \o sorted

RECURSIVE SortByScore(_)
SortByScore(seq) ==
    IF seq = <<>> THEN <<>>
    ELSE InsertByScore(SortByScore(SubSeq(seq, 1, Len(seq) - 1)), seq[Len(seq)])

GenericRecommendations ==
    << JStr(<<"Your resume is strong overall. Continue to tailor it specifically to each job application.">>),
       JStr(<<"Consider adding more quantifiable achievements and metrics.">>),
       JStr(<<"Keep your resume updated with your latest skills and accomplishments.">>) >>

\* the loop over weak_dimensions[:focus_count]; an exception ends it
RECURSIVE FocusRecommendations(_, _, _)
FocusRecommendations(res, focus, i) ==
    IF i > Len(focus) THEN Return(<<>>)
    ELSE LET dim == focus[i][1]
             score == focus[i][2]
             data == Get(res, dim)
             dim_recommendations ==
                 IF HasKey(data, "recommendations") THEN Get(data, "recommendations")
                 ELSE JArr(<<>>)
         IN  IF ~Truthy(dim_recommendations) THEN FocusRecommendations(res, focus, i + 1)
             ELSE LET first == FirstItem(dim_recommendations) IN
                  IF ~first.ok THEN first
                  ELSE LET rest == FocusRecommendations(res, focus, i + 1) IN
                       IF ~rest.ok THEN rest
                       ELSE Return(<<JStr(<<"**", dim, "**", " (Score: ", ToString(score), "): ">>
                                          \o PyStr(first.v))>> \o rest.v)

generate_overall_recommendations(dimension_results) ==
    LET weak_dimensions == SortByScore(WeakDimensions(dimension_results, 1))
        focus_count == Min(FocusCount, Len(weak_dimensions))
        recs == FocusRecommendations(dimension_results, SubSeq(weak_dimensions, 1, focus_count), 1)
    IN  IF ~recs.ok THEN recs
        ELSE IF recs.v = <<>> THEN Return(JArr(GenericRecommendations))
        ELSE Return(JArr(recs.v))

-----------------------------------------------------------------------------
(* ResumeAnalyzer *)

IsStr(value) == value.t = "str"

\* the shape resolution of extract_overlapping_skills, on the parsed value
RECURSIVE FirstListValue(_, _)
FirstListValue(parsed, i) ==
    IF i > Len(parsed.kv) THEN JArr(<<>>)
    ELSE IF parsed.kv[i][2].t = "arr" THEN parsed.kv[i][2]
    ELSE FirstListValue(parsed, i + 1)

\* (mutant) the two named keys tried in the other order
ResolveSkillsOverlapFirst(parsed) ==
    IF parsed.t = "arr" THEN Return(parsed)
    ELSE IF parsed.t = "obj" /\ HasKey(parsed, "overlapping_skills")
         THEN Return(Get(parsed, "overlapping_skills"))
    ELSE IF parsed.t = "obj" /\ HasKey(parsed, "skills") THEN Return(Get(parsed, "skills"))
    ELSE IF parsed.t # "obj" THEN Raise("AttributeError")
    ELSE Return(FirstListValue(parsed, 1))

ResolveSkills(parsed) ==
    IF parsed.t = "arr" THEN Return(parsed)
    ELSE IF parsed.t = "obj" /\ HasKey(parsed, "skills") THEN Return(Get(parsed, "skills"))
    ELSE IF parsed.t = "obj" /\ HasKey(parsed, "overlapping_skills")
         THEN Return(Get(parsed, "overlapping_skills"))
    ELSE IF parsed.t # "obj" THEN Raise("AttributeError")       \* parsed.items()
    ELSE Return(FirstListValue(parsed, 1))

\* the logging between the resolution and `return skills`: len(skills), and for
\* truthy skills ', '.join(skills[:10])
SkillsLoggable(skills) ==
    /\ HasLen(skills)
    /\ Truthy(skills) =>
          /\ Sliceable(skills)
          /\ skills.t = "arr" =>
                \A i \in 1..Min(10, Len(skills.a)) : IsStr(skills.a[i])

\* (mutant) `except json.JSONDecodeError` for `except Exception`
extract_overlapping_skills_narrow_except(completion) ==
    LET parsed == IF completion.ok THEN JsonLoads(completion.v) ELSE completion
        skills == IF parsed.ok THEN ResolveSkills(parsed.v) ELSE parsed
        body == IF ~skills.ok THEN skills
                ELSE IF ~SkillsLoggable(skills.v) THEN Raise("TypeError")
                ELSE skills
    IN  IF body.ok THEN Return(body.v)
        ELSE IF body.e = "JSONDecodeError" THEN Return(JArr(<<>>))
        ELSE body

\* extract_overlapping_skills, given what chat_completion did
extract_overlapping_skills(completion) ==
    LET parsed == IF completion.ok THEN JsonLoads(completion.v) ELSE completion
        skills == IF parsed.ok THEN ResolveSkills(parsed.v) ELSE parsed
        body == IF ~skills.ok THEN skills
                ELSE IF ~SkillsLoggable(skills.v) THEN Raise("TypeError")
                ELSE skills
    IN  IF body.ok THEN Return(body.v) ELSE Return(JArr(<<>>))

\* iterating gaps and calling g.get('importance') on each element
GapsCountable(gaps) ==
    CASE gaps.t = "arr" -> \A i \in 1..Len(gaps.a) : gaps.a[i].t = "obj"
      [] gaps.t = "str" -> Len(gaps.s) = 0
      [] gaps.t = "obj" -> Len(gaps.kv) = 0
      [] OTHER -> FALSE

\* the elements of a list that are dicts
RECURSIVE ObjectsOf(_)
ObjectsOf(a) ==
    IF a = <<>> THEN <<>>
    ELSE IF Head(a).t = "obj" THEN <<Head(a)>> \o ObjectsOf(Tail(a))
    ELSE ObjectsOf(Tail(a))

\* (mutant) elements of 'gaps' that are not dicts are dropped
identify_skill_gaps_skipping(completion) ==
    LET parsed == IF completion.ok THEN JsonLoads(completion.v) ELSE completion
        body == IF ~parsed.ok THEN parsed
                ELSE IF parsed.v.t # "obj" THEN Raise("AttributeError")
                ELSE LET gaps == IF HasKey(parsed.v, "gaps") THEN Get(parsed.v, "gaps")
                                 ELSE JArr(<<>>)
                     IN  IF gaps.t = "arr" THEN Return(JArr(ObjectsOf(gaps.a)))
                         ELSE IF ~GapsCountable(gaps) THEN Raise("AttributeError")
                         ELSE Return(gaps)
    IN  IF body.ok THEN Return(body.v) ELSE Return(JArr(<<>>))

\* identify_skill_gaps, given what chat_completion did
identify_skill_gaps(completion) ==
    LET parsed == IF completion.ok THEN JsonLoads(completion.v) ELSE completion
        body == IF ~parsed.ok THEN parsed
                ELSE IF parsed.v.t # "obj" THEN Raise("AttributeError")      \* result.get
                ELSE LET gaps == IF HasKey(parsed.v, "gaps") THEN Get(parsed.v, "gaps")
                                 ELSE JArr(<<>>)
                     IN  IF ~GapsCountable(gaps) THEN Raise("AttributeError")
                         ELSE Return(gaps)
    IN  IF body.ok THEN Return(body.v) ELSE Return(JArr(<<>>))

PlainText(s) == [content |-> "plain", s |-> s]

\* str.strip(): leading and trailing whitespace removed
RECURSIVE LStrip(_)
LStrip(s) == IF s # <<>> /\ Head(s) = " " THEN LStrip(Tail(s)) ELSE s
RECURSIVE RStrip(_)
RStrip(s) == IF s # <<>> /\ s[Len(s)] = " " THEN RStrip(SubSeq(s, 1, Len(s) - 1)) ELSE s
Strip(s) == RStrip(LStrip(s))

\* f"{overall_score}" of a float rounded to one decimal: 51.4, 80.0
FormatFloat1(tenths) == ToString(tenths \div 10) \o "." \o ToString(tenths % 10)

FallbackSummary(overall_score) ==
    JStr(<<"This resume shows a ", FormatFloat1(overall_score.tenths),
           "% fit for the target role based on our analysis.">>)

\* generate_executive_summary, given what structured_completion did.  The
\* counts logged before the try block are outside it.
generate_executive_summary(completion, overall_score, skills, gaps) ==
    IF ~HasLen(skills) \/ ~HasLen(gaps) \/ ~GapsCountable(gaps) THEN Raise("TypeError")
    ELSE IF ~completion.ok THEN Return(FallbackSummary(overall_score))
    ELSE IF completion.v.content = "none" THEN Return(FallbackSummary(overall_score))
    ELSE Return(JStr(Strip(completion.v.s)))

\* (mutant) the comprehension filtered to the dimensions that did not degrade
RECURSIVE DimensionsOfSucceeded(_, _)
DimensionsOfSucceeded(dimension_results, i) ==
    IF i > Len(DIMENSIONS) THEN <<>>
    ELSE IF Get(Get(dimension_results, DIMENSIONS[i]), "recommendations")
               = JArr(<<JStr(PlaceholderRecommendation)>>)
         THEN DimensionsOfSucceeded(dimension_results, i + 1)
         ELSE << <<DIMENSIONS[i], Get(dimension_results, DIMENSIONS[i])>> >>
              \o DimensionsOfSucceeded(dimension_results, i + 1)

\* the dict comprehension {dim: dimension_results[dim] for dim in DIMENSIONS}
RECURSIVE DimensionsOf(_, _)
DimensionsOf(dimension_results, i) ==
    IF i > Len(DIMENSIONS) THEN <<>>
    ELSE << <<DIMENSIONS[i], Get(dimension_results, DIMENSIONS[i])>> >>
         \o DimensionsOf(dimension_results, i + 1)

\* (mutant) the dict literal without its dimension_weights entry
CompileAnalysisNoWeights(dimension_results, executive_summary, skills, gaps, recommendations) ==
    JObj(<< <<"overall_score", Get(dimension_results, "overall_score")>>,
            <<"executive_summary", executive_summary>>,
            <<"overlapping_skills", skills>>,
            <<"skill_gaps", gaps>>,
            <<"dimensions", JObj(DimensionsOf(dimension_results, 1))>>,
            <<"overall_recommendations", recommendations>> >>)

\* (mutant) the dict literal with a field that counts the analyses made so far
CompileAnalysisNumbered(dimension_results, executive_summary, skills, gaps, recommendations) ==
    JObj(<< <<"overall_score", Get(dimension_results, "overall_score")>>,
            <<"executive_summary", executive_summary>>,
            <<"overlapping_skills", skills>>,
            <<"skill_gaps", gaps>>,
            <<"dimensions", JObj(DimensionsOf(dimension_results, 1))>>,
            <<"dimension_weights", Get(dimension_results, "dimension_weights")>>,
            <<"overall_recommendations", recommendations>>,
            <<"analysis_number", JNum(Len(history) + 1)>> >>)

\* the `analysis` dict literal of analyze_resume
CompileAnalysis(dimension_results, executive_summary, skills, gaps, recommendations) ==
    JObj(<< <<"overall_score", Get(dimension_results, "overall_score")>>,
            <<"executive_summary", executive_summary>>,
            <<"overlapping_skills", skills>>,
            <<"skill_gaps", gaps>>,
            <<"dimensions", JObj(DimensionsOf(dimension_results, 1))>>,
            <<"dimension_weights", Get(dimension_results, "dimension_weights")>>,
            <<"overall_recommendations", recommendations>> >>)

-----------------------------------------------------------------------------
(* What the Completion Capability may answer to an evaluate_dimension call *)

MaxExcess == 50    \* numeric scores range over -MaxExcess .. 100 + MaxExcess

Rec1 == JStr(<<"Add metrics to each role">>)
Rec2 == JStr(<<"Mirror the job description keywords">>)
GoodAnalysis == JStr(<<"Solid match for the role">>)

NumericScores == (ScoreLow - MaxExcess)..(ScoreHigh + MaxExcess)

DimScoreValues == {JNum(-20), JNum(0), JNum(35), JNum(100), JNum(150), JStr(<<"85">>), JNull}
DimAnalysisValues == {GoodAnalysis, JNum(7), JNull}
DimRecommendationValues ==
    {JArr(<<>>), JArr(<<Rec1>>), JArr(<<Rec1, Rec2>>), Rec1,
     JObj(<< <<"first", Rec1>> >>), JNull}

\* the object with the given required keys present, in the order of the prompt
DimObject(present, score, analysis, recs) ==
    LET vals == <<score, analysis, recs>>
        idx == {i \in 1..3 : RequiredKeys[i] \in present}
        RECURSIVE Build(_)
        Build(i) == IF i > 3 THEN <<>>
                    ELSE IF i \in idx THEN << <<RequiredKeys[i], vals[i]>> >> \o Build(i + 1)
                    ELSE Build(i + 1)
    IN  JObj(Build(1))

WellFormed(score, recs) == DimObject({"score", "analysis", "recommendations"}, JNum(score), GoodAnalysis, recs)

DimParsedValues ==
    {DimObject(p, s, a, r) : p \in SUBSET {"score", "analysis", "recommendations"},
                             s \in DimScoreValues, a \in DimAnalysisValues,
                             r \in DimRecommendationValues}
    \cup {WellFormed(n, JArr(<<Rec1, Rec2>>)) : n \in NumericScores}
    \cup {JNull, JNum(85), JArr(<<>>),
          JStr(<<"score", " ", "analysis", " ", "recommendations">>),
          JArr(<<JStr(<<"score">>), JStr(<<"analysis">>), JStr(<<"recommendations">>)>>)}

APIError == "APIError: Connection error."

DimCompletions ==
    {Raise(APIError), Return(None), Return(NotJson)}
    \cup {Return(JsonText(v)) : v \in DimParsedValues}

-----------------------------------------------------------------------------
(* The analyze_resume call at rest: what the other specifications hold fixed *)

NoValue == [t |-> "unset"]

PipelineIdle ==
    /\ dimension_weights = DIMENSION_WEIGHTS
    /\ pc = "idle"
    /\ overlapping_skills = NoValue
    /\ skill_gaps = NoValue
    /\ results = JObj(<<>>)
    /\ overall_recommendations = NoValue
    /\ outcome = NoValue
    /\ calls = <<>>

\* Python's None, the value of _client_instance when the module is loaded
ClientNone == [t |-> "None"]

\* the module openai_client as loaded, the key set: no client asked for yet
\* the data and reports directories hold no file, no request was served
HttpIdle ==
    /\ resumes = {}
    /\ analyses = {}
    /\ optimized = {}
    /\ reports = {}
    /\ uuids = 0
    /\ request = NoValue
    /\ last_response = NoValue
    /\ succeeded = {}

ClientIdle ==
    /\ client_instance = ClientNone
    /\ api_key = TRUE
    /\ attempts = 0
    /\ gets = <<>>

\* no single-method call under way, the capability not mocked, no earlier run
OthersIdle ==
    /\ arg = NoValue
    /\ ret = NoValue
    /\ mock = NoValue
    /\ history = <<>>
    /\ ClientIdle
    /\ HttpIdle

pipelineVars == <<dimension_weights, pc, overlapping_skills, skill_gaps, results, overall_recommendations,
                  outcome, calls>>

-----------------------------------------------------------------------------
(* SpecDim: one evaluate_dimension call, for every answer of the capability *)

DimInit ==
    /\ PipelineIdle
    /\ OthersIdle
    /\ dim_call \in DimCompletions
    /\ dim_result = NoValue

EvaluateDimensionCall ==
    /\ dim_result = NoValue
    /\ dim_result' = evaluate_dimension(dim_call)
    /\ UNCHANGED <<dim_call, pipelineVars, clientVars, httpVars, callVars, runVars>>

DimNext == EvaluateDimensionCall

SpecDim == DimInit /\ [][DimNext]_vars

-----------------------------------------------------------------------------
(* Spec: one analyze_resume call; every completion call is answered by the   *)
(* capability with one of the answers below                                  *)

MaxRichDims == 1   \* this many dimensions also get the irregular answers

\* the order in which dimensions are given the irregular answers
RichOrder ==
    <<"Innovation and Problem-Solving", "ATS Compatibility", "Growth and Progression",
      "Communication and Writing Quality", "Quantifiable Results", "Clarity and Structure",
      "Technical Proficiency", "Impact and Achievements", "Relevance of Experience">>

RichDims == {RichOrder[k] : k \in 1..Min(MaxRichDims, Len(RichOrder))}

ExampleScores == <<90, 70, 60, 50, 40, 30, 20, 10, 0>>

Python == JStr(<<"Python">>)
AWS == JStr(<<"AWS">>)
Gap1 ==
    JObj(<< <<"skill", JStr(<<"Kubernetes">>)>>, <<"importance", JStr(<<"high">>)>>,
            <<"suggestion", JStr(<<"Take a course">>)>> >>)

OverlapCompletions ==
    {Raise(APIError), Return(NotJson),
     Return(JsonText(JObj(<< <<"skills", JArr(<<Python, AWS>>)>> >>))),
     Return(JsonText(JObj(<< <<"count", JNum(2)>> >>))),
     Return(JsonText(JNum(2)))}

GapCompletions ==
    {Raise(APIError), Return(NotJson),
     Return(JsonText(JObj(<< <<"gaps", JArr(<<Gap1>>)>> >>))),
     Return(JsonText(JObj(<< <<"gaps", JArr(<<JStr(<<"Kubernetes">>)>>)>> >>))),
     Return(JsonText(JArr(<<Gap1>>)))}

SummaryCompletions ==
    {Raise(APIError), Return(None),
     Return(PlainText(<<" ", "A strong fit overall.", " ">>)),
     Return(PlainText(<<" ", " ">>)),
     Return(PlainText(<<>>))}

IrregularDimCompletions ==
    {Return(NotJson),
     Return(JsonText(WellFormed(150, JArr(<<Rec1>>)))),
     Return(JsonText(WellFormed(-20, JObj(<< <<"first", Rec1>> >>)))),
     Return(JsonText(WellFormed(34, JArr(<<Rec1>>)))),
     Return(JsonText(WellFormed(35, JArr(<<>>)))),
     Return(JsonText(WellFormed(37, JArr(<<Rec1, Rec2>>))))}

PipelineDimCompletions(i) ==
    {Raise(APIError), Return(JsonText(WellFormed(ExampleScores[i], JArr(<<Rec1, Rec2>>))))}
    \cup (IF DIMENSIONS[i] \in RichDims THEN IrregularDimCompletions ELSE {})

\* what the capability may answer to the call `key`: a mocked capability gives
\* its canned answer, the real one any of `all`
Answers(key, all) == IF mock = NoValue THEN all ELSE {mock[key]}

\* sum() and round() are functions of the scores and the weights: when an
\* earlier run with these scores and weights reported one of the roundings this
\* sum allows, the aggregate has that overall_score too
AgreesWithEarlier(aggregate) ==
    \A k \in 1..Len(history) :
       LET earlier == history[k] IN
       (/\ HasKey(earlier.results, "overall_score")
        /\ earlier.weights = dimension_weights
        /\ \A i \in 1..Len(DIMENSIONS) :
              Get(Get(earlier.results, DIMENSIONS[i]), "score")
                 = Get(Get(aggregate, DIMENSIONS[i]), "score")
        /\ Get(earlier.results, "overall_score").tenths
              \in Round1(WeightedSum(aggregate, dimension_weights, 1)))
       => Get(aggregate, "overall_score") = Get(earlier.results, "overall_score")

\* one completion call as the capability saw it
Call(op, dim, completion) == [op |-> op, dim |-> dim, raised |-> ~completion.ok]

Init ==
    /\ PipelineIdle
    /\ OthersIdle
    /\ dim_call = NoValue
    /\ dim_result = NoValue

\* the call ends and gives `o` to its caller
Finish(o) ==
    /\ pc' = "done"
    /\ outcome' = o
    /\ history' = Append(history, [mock |-> mock, outcome |-> o, results |-> results,
                                   weights |-> dimension_weights])

\* the except branch of analyze_resume: log, then re-raise
Reraise(e) == Finish(Raise(e))

AnalyzeResume ==
    /\ pc = "idle"
    /\ pc' = "step1"
    /\ UNCHANGED <<overlapping_skills, skill_gaps, results, overall_recommendations,
                   outcome, calls, dimension_weights, dim_call, dim_result, clientVars, httpVars, callVars, runVars>>

Step1 ==
    /\ pc = "step1"
    /\ \E completion \in Answers("extract_overlapping_skills", OverlapCompletions) :
          LET r == extract_overlapping_skills(completion) IN
          /\ calls' = Append(calls, Call("extract_overlapping_skills", "", completion))
          /\ IF r.ok
             THEN overlapping_skills' = r.v /\ pc' = "step2" /\ UNCHANGED <<outcome, history>>
             ELSE Reraise(r.e) /\ UNCHANGED overlapping_skills
    /\ UNCHANGED <<skill_gaps, results, overall_recommendations, dimension_weights, dim_call, dim_result, clientVars, httpVars, callVars, mock>>

Step2 ==
    /\ pc = "step2"
    /\ \E completion \in Answers("identify_skill_gaps", GapCompletions) :
          LET r == identify_skill_gaps(completion) IN
          /\ calls' = Append(calls, Call("identify_skill_gaps", "", completion))
          /\ IF r.ok
             THEN skill_gaps' = r.v /\ pc' = "step3" /\ UNCHANGED <<outcome, history>>
             ELSE Reraise(r.e) /\ UNCHANGED skill_gaps
    /\ UNCHANGED <<overlapping_skills, results, overall_recommendations, dimension_weights, dim_call, dim_result, clientVars, httpVars, callVars, mock>>

\* one turn of the loop of evaluate_all_dimensions; the last turn goes on to
\* the weighted sum and returns the aggregate
Step3 ==
    /\ pc = "step3"
    /\ LET i == Len(results.kv) + 1 IN
       \E completion \in Answers(DIMENSIONS[i], PipelineDimCompletions(i)) :
          LET r == evaluate_dimension(completion) IN
          /\ calls' = Append(calls, Call("evaluate_dimension", DIMENSIONS[i], completion))
          /\ IF ~r.ok
             THEN Reraise(r.e) /\ UNCHANGED results
             ELSE /\ UNCHANGED <<outcome, history>>
                  /\ IF i < Len(DIMENSIONS)
                     THEN results' = Put(results, DIMENSIONS[i], r.v) /\ pc' = "step3"
                     ELSE results' \in {a \in Aggregates(Put(results, DIMENSIONS[i], r.v),
                                                          dimension_weights) :
                                           AgreesWithEarlier(a)}
                          /\ pc' = "step4"
    /\ UNCHANGED <<overlapping_skills, skill_gaps, overall_recommendations, dimension_weights, dim_call, dim_result, clientVars, httpVars, callVars, mock>>

Step4 ==
    /\ pc = "step4"
    /\ LET r == generate_overall_recommendations(results) IN
          IF r.ok
          THEN overall_recommendations' = r.v /\ pc' = "step5" /\ UNCHANGED <<outcome, history>>
          ELSE Reraise(r.e) /\ UNCHANGED overall_recommendations
    /\ UNCHANGED <<overlapping_skills, skill_gaps, results, calls, dimension_weights, dim_call, dim_result, clientVars, httpVars, callVars, mock>>

\* step 5, the compilation of the report and the return
Step5 ==
    /\ pc = "step5"
    /\ \E completion \in Answers("generate_executive_summary", SummaryCompletions) :
          LET r == generate_executive_summary(completion, Get(results, "overall_score"),
                                              overlapping_skills, skill_gaps) IN
          /\ calls' = Append(calls, Call("generate_executive_summary", "", completion))
          /\ IF r.ok
             THEN Finish(Return(CompileAnalysis(results, r.v, overlapping_skills,
                                                skill_gaps, overall_recommendations)))
             ELSE Reraise(r.e)
    /\ UNCHANGED <<overlapping_skills, skill_gaps, results, overall_recommendations,
                   dimension_weights, dim_call, dim_result, clientVars, httpVars, callVars, mock>>

Next == AnalyzeResume \/ Step1 \/ Step2 \/ Step3 \/ Step4 \/ Step5

Spec == Init /\ [][Next]_vars

-----------------------------------------------------------------------------
(* SpecRec: evaluate_all_dimensions on the answers below, then one           *)
(* generate_overall_recommendations call on the aggregate it returned        *)

\* the dimensions that are given every answer of VariedDimAnswers
FullyVariedDims ==
    {"Technical Proficiency", "Clarity and Structure", "Innovation and Problem-Solving"}

VariedDimAnswers ==
    {Return(JsonText(WellFormed(95, JArr(<<Rec1>>)))),
     Return(JsonText(WellFormed(70, JArr(<<Rec1, Rec2>>)))),
     Return(JsonText(WellFormed(69, JArr(<<Rec1, Rec2>>)))),
     Return(JsonText(WellFormed(35, JArr(<<>>)))),
     Return(JsonText(WellFormed(35, JArr(<<Rec2>>)))),
     Return(JsonText(WellFormed(50, JObj(<< <<"first", Rec1>> >>)))),
     Return(JsonText(WellFormed(50, Rec1))),
     Raise(APIError)}

PlainDimAnswers ==
    {Return(JsonText(WellFormed(95, JArr(<<Rec1>>)))),
     Return(JsonText(WellFormed(35, JArr(<<Rec2>>))))}

RecDimAnswers(i) ==
    IF DIMENSIONS[i] \in FullyVariedDims THEN VariedDimAnswers ELSE PlainDimAnswers

RecInit ==
    /\ PipelineIdle
    /\ dim_call = NoValue
    /\ dim_result = NoValue
    /\ mock = NoValue
    /\ history = <<>>
    /\ ClientIdle
    /\ HttpIdle
    /\ arg = JObj(<<>>)
    /\ ret = NoValue

\* one turn of the loop of evaluate_all_dimensions, building the aggregate the
\* method under study is given; the last turn adds the two aggregate keys
EvaluateAllDimensions ==
    /\ Len(arg.kv) < Len(DIMENSIONS)
    /\ LET i == Len(arg.kv) + 1 IN
       \E completion \in RecDimAnswers(i) :
          LET r == evaluate_dimension(completion) IN
          IF i < Len(DIMENSIONS)
          THEN arg' = Put(arg, DIMENSIONS[i], r.v)
          ELSE arg' \in Aggregates(Put(arg, DIMENSIONS[i], r.v), dimension_weights)
    /\ UNCHANGED <<ret, pipelineVars, dim_call, dim_result, clientVars, httpVars, runVars>>

GenerateOverallRecommendations ==
    /\ Len(arg.kv) > Len(DIMENSIONS)
    /\ ret = NoValue
    /\ ret' = generate_overall_recommendations(arg)
    /\ UNCHANGED <<arg, pipelineVars, dim_call, dim_result, clientVars, httpVars, runVars>>

RecNext == EvaluateAllDimensions \/ GenerateOverallRecommendations

SpecRec == RecInit /\ [][RecNext]_vars

-----------------------------------------------------------------------------
(* SpecSkills: one extract_overlapping_skills call, for every answer below   *)

StringsTen == [i \in 1..10 |-> JStr(<<"skill", ToString(i)>>)]

SkillValues ==
    {JArr(<<Python, AWS>>), JArr(<<AWS>>), JArr(<<>>), JArr(<<JNum(1), Python>>),
     Python, JNum(5), JNull, JObj(<<>>), JObj(<< <<"a", Python>> >>)}

SkillKeys == {"skills", "overlapping_skills", "matches", "count"}

SkillParsedValues ==
    SkillValues
    \cup {JArr(Append(StringsTen, JNum(11))), JArr([StringsTen EXCEPT ![10] = JNum(10)])}
    \cup {JObj(<< <<k, v>> >>) : k \in SkillKeys, v \in SkillValues}
    \cup {JObj(<< <<k[1], v1>>, <<k[2], v2>> >>) :
             k \in {kk \in SkillKeys \X SkillKeys : kk[1] # kk[2]},
             v1 \in SkillValues, v2 \in SkillValues}

SkillCompletions ==
    {Raise(APIError), Return(None), Return(NotJson)}
    \cup {Return(JsonText(v)) : v \in SkillParsedValues}

SkillsInit ==
    /\ PipelineIdle
    /\ dim_call = NoValue
    /\ dim_result = NoValue
    /\ mock = NoValue
    /\ history = <<>>
    /\ ClientIdle
    /\ HttpIdle
    /\ arg \in SkillCompletions
    /\ ret = NoValue

ExtractOverlappingSkills ==
    /\ ret = NoValue
    /\ ret' = extract_overlapping_skills(arg)
    /\ UNCHANGED <<arg, pipelineVars, dim_call, dim_result, clientVars, httpVars, runVars>>

SkillsNext == ExtractOverlappingSkills

SpecSkills == SkillsInit /\ [][SkillsNext]_vars

-----------------------------------------------------------------------------
(* SpecGaps: one identify_skill_gaps call, for every answer below            *)

MaxGaps == 3       \* the 'gaps' arrays have up to this many elements

Gap2 ==
    JObj(<< <<"skill", JStr(<<"Terraform">>)>>, <<"importance", JStr(<<"low">>)>>,
            <<"suggestion", JStr(<<"Build a side project">>)>> >>)

\* a dict that is no SkillGap: no suggestion, an importance outside the enum
Gap3 == JObj(<< <<"skill", JStr(<<"Go">>)>>, <<"importance", JStr(<<"critical">>)>> >>)

GapElements == {Gap1, Gap2, Gap3, JStr(<<"Kubernetes">>), JNum(5)}

RECURSIVE SeqsUpTo(_, _)
SeqsUpTo(S, n) ==
    IF n = 0 THEN {<<>>}
    ELSE SeqsUpTo(S, n - 1)
         \cup {Append(q, x) : q \in {r \in SeqsUpTo(S, n - 1) : Len(r) = n - 1}, x \in S}

GapsValues ==
    {JArr(a) : a \in SeqsUpTo(GapElements, MaxGaps)}
    \cup {JNum(5), JNull, JStr(<<>>), JStr(<<"none">>), JObj(<<>>), JObj(<< <<"a", JNum(1)>> >>)}

GapParsedValues ==
    {JObj(<< <<"gaps", v>> >>) : v \in GapsValues}
    \cup {JObj(<< <<"summary", GoodAnalysis>>, <<"gaps", v>> >>) : v \in GapsValues}
    \cup {JObj(<<>>), JObj(<< <<"summary", GoodAnalysis>> >>), JObj(<< <<"skill_gaps", JArr(<<Gap1>>)>> >>),
          JArr(<<Gap1>>), JArr(<<>>), JNum(5), JNull, JStr(<<"gaps">>)}

GapsCompletions ==
    {Raise(APIError), Return(None), Return(NotJson)}
    \cup {Return(JsonText(v)) : v \in GapParsedValues}

GapsInit ==
    /\ PipelineIdle
    /\ dim_call = NoValue
    /\ dim_result = NoValue
    /\ mock = NoValue
    /\ history = <<>>
    /\ ClientIdle
    /\ HttpIdle
    /\ arg \in GapsCompletions
    /\ ret = NoValue

IdentifySkillGaps ==
    /\ ret = NoValue
    /\ ret' = identify_skill_gaps(arg)
    /\ UNCHANGED <<arg, pipelineVars, dim_call, dim_result, clientVars, httpVars, runVars>>

GapsNext == IdentifySkillGaps

SpecGaps == GapsInit /\ [][GapsNext]_vars

-----------------------------------------------------------------------------
(* SpecRuns: analyze_resume called several times in one process, each time   *)
(* with a mocked capability; SpecCaller: the same, with a caller that writes *)
(* into the dimension_weights of the report it was given                     *)

MaxRuns == 3       \* analyze_resume is called at most this many times

MockKeys ==
    {"extract_overlapping_skills", "identify_skill_gaps", "generate_executive_summary"}
    \cup DimensionNames

DimIndex(dim) == CHOOSE i \in 1..Len(DIMENSIONS) : DIMENSIONS[i] = dim

\* a mocked capability: a fixed answer for each call
MockOf(innovation, relevance, summary) ==
    [key \in MockKeys |->
        CASE key = "extract_overlapping_skills" ->
                Return(JsonText(JObj(<< <<"skills", JArr(<<Python, AWS>>)>> >>)))
          [] key = "identify_skill_gaps" ->
                Return(JsonText(JObj(<< <<"gaps", JArr(<<Gap1>>)>> >>)))
          [] key = "generate_executive_summary" -> summary
          [] key = "Innovation and Problem-Solving" -> innovation
          [] key = "Relevance of Experience" -> relevance
          [] OTHER ->
                Return(JsonText(WellFormed(ExampleScores[DimIndex(key)], JArr(<<Rec1, Rec2>>))))]

Mocks ==
    {MockOf(innovation, relevance, summary) :
        innovation \in {Return(JsonText(WellFormed(20, JArr(<<Rec1, Rec2>>)))),
                        Return(JsonText(WellFormed(-20, JObj(<< <<"first", Rec1>> >>)))),
                        Return(JsonText(WellFormed(35, JArr(<<>>))))},
        relevance \in {Raise(APIError), Return(JsonText(WellFormed(90, JArr(<<Rec1, Rec2>>))))},
        summary \in {Raise(APIError), Return(PlainText(<<" ", "A strong fit overall.", " ">>))}}

\* analyze_resume is called, on a new analyzer or on one used before, the
\* capability mocked: the call starts with fresh locals
AnalyzeResumeMocked ==
    /\ pc \in {"idle", "done"}
    /\ Len(history) < MaxRuns
    /\ mock' \in Mocks
    /\ pc' = "step1"
    /\ overlapping_skills' = NoValue
    /\ skill_gaps' = NoValue
    /\ results' = JObj(<<>>)
    /\ overall_recommendations' = NoValue
    /\ outcome' = NoValue
    /\ calls' = <<>>
    /\ UNCHANGED <<dimension_weights, history, dim_call, dim_result, clientVars, httpVars, callVars>>

RunsNext == AnalyzeResumeMocked \/ Step1 \/ Step2 \/ Step3 \/ Step4 \/ Step5

SpecRuns == Init /\ [][RunsNext]_vars

\* the caller of analyze_resume writes into report["dimension_weights"]: the
\* report holds the class dict itself, so the write lands in the table
ModifyReportWeights ==
    /\ pc = "done"
    /\ outcome.ok
    /\ Get(outcome.v, "dimension_weights") = WeightsRef
    /\ dimension_weights = DIMENSION_WEIGHTS
    /\ \E dim \in {DIMENSIONS[1]} :
          dimension_weights' = [dimension_weights EXCEPT ![dim] = 50]
    /\ UNCHANGED <<pc, overlapping_skills, skill_gaps, results, overall_recommendations,
                   outcome, calls, dim_call, dim_result, clientVars, httpVars, callVars, runVars>>

CallerNext == ModifyReportWeights \/ RunsNext

SpecCaller == Init /\ [][CallerNext]_vars

-----------------------------------------------------------------------------
(* SpecOrder: analyze_resume run once as written, then once more with the    *)
(* same capability answers and steps 1, 2 and the nine evaluations of step 3 *)
(* taken in another order                                                    *)

MaxOvertakes == 2  \* at most this many calls are made before one that the code makes earlier

\* the mocks of the two runs: every call answered, the three answers for
\* 'Innovation and Problem-Solving'
OrderMocks ==
    {m \in Mocks : m["Relevance of Experience"].ok /\ m["generate_executive_summary"].ok}

\* the place of a call of steps 1 to 3 in the order of the code
TaskIndex(call) ==
    CASE call.op = "extract_overlapping_skills" -> 1
      [] call.op = "identify_skill_gaps" -> 2
      [] OTHER -> 2 + DimIndex(call.dim)

\* the calls that were made while one that the code makes earlier was still to
\* be made
Overtakes(made) ==
    Cardinality({k \in 1..Len(made) :
        \E j \in 1..(TaskIndex(made[k]) - 1) :
           \A n \in 1..(k - 1) : TaskIndex(made[n]) # j})

AnalyzeResumeFirst ==
    /\ pc = "idle"
    /\ AnalyzeResumeMocked
    /\ mock' \in OrderMocks

\* the second run: the same answers, fresh locals, steps 1 to 3 in any order
AnalyzeResumeReordered ==
    /\ pc = "done"
    /\ Len(history) = 1
    /\ pc' = "gather"
    /\ overlapping_skills' = NoValue
    /\ skill_gaps' = NoValue
    /\ results' = JObj(<<>>)
    /\ overall_recommendations' = NoValue
    /\ outcome' = NoValue
    /\ calls' = <<>>
    /\ UNCHANGED <<dimension_weights, dim_call, dim_result, clientVars, httpVars, callVars, runVars>>

\* step 1, at any time before the join
Overlap ==
    /\ pc = "gather"
    /\ overlapping_skills = NoValue
    /\ \E completion \in Answers("extract_overlapping_skills", OverlapCompletions) :
          /\ calls' = Append(calls, Call("extract_overlapping_skills", "", completion))
          /\ overlapping_skills' = extract_overlapping_skills(completion).v
    /\ UNCHANGED <<pc, skill_gaps, results, overall_recommendations, outcome,
                   dimension_weights, dim_call, dim_result, clientVars, httpVars, callVars, runVars>>

\* step 2, at any time before the join
Gaps ==
    /\ pc = "gather"
    /\ skill_gaps = NoValue
    /\ \E completion \in Answers("identify_skill_gaps", GapCompletions) :
          /\ calls' = Append(calls, Call("identify_skill_gaps", "", completion))
          /\ skill_gaps' = identify_skill_gaps(completion).v
    /\ Overtakes(calls') <= MaxOvertakes
    /\ UNCHANGED <<pc, overlapping_skills, results, overall_recommendations, outcome,
                   dimension_weights, dim_call, dim_result, clientVars, httpVars, callVars, runVars>>

\* one evaluation of step 3, of any dimension not yet evaluated; its result is
\* stored under its name
Dimension ==
    /\ pc = "gather"
    /\ \E i \in 1..Len(DIMENSIONS) :
          /\ ~HasKey(results, DIMENSIONS[i])
          /\ \E completion \in Answers(DIMENSIONS[i], PipelineDimCompletions(i)) :
                /\ calls' = Append(calls, Call("evaluate_dimension", DIMENSIONS[i], completion))
                /\ results' = Put(results, DIMENSIONS[i], evaluate_dimension(completion).v)
          /\ Overtakes(calls') <= MaxOvertakes
    /\ UNCHANGED <<pc, overlapping_skills, skill_gaps, overall_recommendations, outcome,
                   dimension_weights, dim_call, dim_result, clientVars, httpVars, callVars, runVars>>

\* steps 1 to 3 are all done: the weighted sum, then on to step 4
Join ==
    /\ pc = "gather"
    /\ overlapping_skills # NoValue
    /\ skill_gaps # NoValue
    /\ Len(results.kv) = Len(DIMENSIONS)
    /\ results' \in {a \in Aggregates(results, dimension_weights) : AgreesWithEarlier(a)}
    /\ pc' = "step4"
    /\ UNCHANGED <<overlapping_skills, skill_gaps, overall_recommendations, outcome, calls,
                   dimension_weights, dim_call, dim_result, clientVars, httpVars, callVars, runVars>>

OrderNext ==
    \/ AnalyzeResumeFirst \/ Step1 \/ Step2 \/ Step3 \/ Step4 \/ Step5
    \/ AnalyzeResumeReordered \/ Overlap \/ Gaps \/ Dimension \/ Join

SpecOrder == Init /\ [][OrderNext]_vars

-----------------------------------------------------------------------------
(* SpecClient: the constructors of ScoringEngine, ResumeAnalyzer and         *)
(* ResumeGenerator asking for the client, one after the other, while the     *)
(* environment may change                                                    *)

MaxGets == 4       \* get_openai_client is called at most this many times

\* OpenAIClient(): ValueError without the key; the OpenAI constructor or the
\* parsing of MAX_TOKENS / TEMPERATURE may raise too (sound = FALSE); else the
\* new object, told apart by the number of the construction
OpenAIClientInit(key, sound, number) ==
    IF ~key THEN Raise("ValueError: OPENAI_API_KEY not found in environment variables")
    ELSE IF ~sound THEN Raise("Exception")
    ELSE Return([t |-> "OpenAIClient", number |-> number])

\* (mutant) a client is constructed on every call
get_openai_client_always_new(instance, made) ==
    [outcome |-> made,
     instance |-> IF made.ok THEN made.v ELSE instance,
     constructs |-> TRUE]

\* get_openai_client, `made` being what OpenAIClient() does if it is called:
\* what the caller gets, the new _client_instance, and whether OpenAIClient()
\* was called
get_openai_client(instance, made) ==
    IF instance = ClientNone
    THEN [outcome |-> made,
          instance |-> IF made.ok THEN made.v ELSE ClientNone,
          constructs |-> TRUE]
    ELSE [outcome |-> Return(instance), instance |-> instance, constructs |-> FALSE]

ClientInit ==
    /\ PipelineIdle
    /\ OthersIdle
    /\ dim_call = NoValue
    /\ dim_result = NoValue

\* `self.client = get_openai_client()` in a constructor
GetOpenAIClient ==
    /\ Len(gets) < MaxGets
    /\ \E by \in {"ScoringEngine", "ResumeAnalyzer", "ResumeGenerator"}, sound \in BOOLEAN :
          LET r == get_openai_client(client_instance,
                                     OpenAIClientInit(api_key, sound, attempts + 1)) IN
          /\ client_instance' = r.instance
          /\ attempts' = IF r.constructs THEN attempts + 1 ELSE attempts
          /\ gets' = Append(gets, [by |-> by, outcome |-> r.outcome])
    /\ UNCHANGED <<api_key, httpVars, pipelineVars, dim_call, dim_result, callVars, runVars>>

\* the environment: OPENAI_API_KEY is set or removed
SetApiKey ==
    /\ api_key' = ~api_key
    /\ UNCHANGED <<client_instance, attempts, gets, httpVars, pipelineVars, dim_call, dim_result,
                   callVars, runVars>>

ClientNext == GetOpenAIClient \/ SetApiKey

SpecClient == ClientInit /\ [][ClientNext]_vars

-----------------------------------------------------------------------------
(* SpecScore: analyze_resume run once with a mocked capability whose nine    *)
(* evaluations fail, score 100 or score just below; the first may also       *)
(* score outside 0..100 and the second may score 35                          *)

ScoredAnswer(score) == Return(JsonText(WellFormed(score, JArr(<<Rec1>>))))

\* the answers to the evaluation of DIMENSIONS[i]
ScoreAnswers(i) ==
    {Raise(APIError), ScoredAnswer(100)}
    \cup (IF i = 1 THEN {ScoredAnswer(150), ScoredAnswer(-20)} ELSE {})
    \cup (IF i = 2 THEN {ScoredAnswer(35)} ELSE {})
    \cup (IF i = 8 THEN {ScoredAnswer(99)} ELSE {})
    \cup (IF i = 9 THEN {ScoredAnswer(99), ScoredAnswer(98)} ELSE {})

ScoreMocks ==
    {[key \in MockKeys |->
         IF key \in DimensionNames THEN a[DimIndex(key)]
         ELSE MockOf(a[8], a[1], Return(PlainText(<<" ", "A strong fit overall.", " ">>)))[key]] :
      a \in ScoreAnswers(1) \X ScoreAnswers(2) \X ScoreAnswers(3) \X ScoreAnswers(4)
            \X ScoreAnswers(5) \X ScoreAnswers(6) \X ScoreAnswers(7) \X ScoreAnswers(8)
            \X ScoreAnswers(9)}

AnalyzeResumeScored ==
    /\ pc = "idle"
    /\ mock' \in ScoreMocks
    /\ pc' = "step1"
    /\ overlapping_skills' = NoValue
    /\ skill_gaps' = NoValue
    /\ results' = JObj(<<>>)
    /\ overall_recommendations' = NoValue
    /\ outcome' = NoValue
    /\ calls' = <<>>
    /\ UNCHANGED <<dimension_weights, history, dim_call, dim_result, clientVars, httpVars, callVars>>

ScoreNext == AnalyzeResumeScored \/ Step1 \/ Step2 \/ Step3 \/ Step4 \/ Step5

SpecScore == Init /\ [][ScoreNext]_vars

-----------------------------------------------------------------------------
(* SpecHttp: the endpoints of the HTTP layer, served one request after the   *)
(* other.  The directories are sets of file names.  Failures of the file     *)
(* system are left out, but for the read of the resume in POST /api/analyze: *)
(* a file that exists can be read and a write succeeds.                      *)

MaxUuids == 3              \* uuid4() is called at most this many times
MaxHttpGets == 5           \* the handlers call get_openai_client at most this many times
MaxAnalyses == 2           \* analyzer.analyze_resume is called at most this many times
MinJobDescription == 50

\* str(uuid4()): a value never given before
Uuid(n) == "u" \o ToString(n)

\* len() of a text kept as a sequence of pieces
RECURSIVE PyLen(_)
PyLen(s) == IF s = <<>> THEN 0 ELSE Len(Head(s)) + PyLen(Tail(s))

\* DATA_DIR / f"{resume_id}.txt" exists: a file written by upload_resume, or,
\* OPTIMIZED_DIR being data/optimized_resumes, a file of that directory
ResumePathExists(resume_id) ==
    \/ resume_id \in resumes
    \/ \E name \in optimized : resume_id = "optimized_resumes/" \o name

\* ANALYSIS_DIR / f"{analysis_id}.json" exists
AnalysisPathExists(analysis_id) == \E a \in analyses : a.analysis_id = analysis_id

AnalysisData(analysis_id) == CHOOSE a \in analyses : a.analysis_id = analysis_id

Response(endpoint, id, body, status) ==
    [endpoint |-> endpoint, id |-> id, body |-> body, status |-> status]

Success(endpoint, id) == [endpoint |-> endpoint, id |-> id]

\* the handler answers and leaves the files as they are
Reject(endpoint, id, body, status) ==
    /\ last_response' = Response(endpoint, id, body, status)
    /\ UNCHANGED <<storeVars, uuids, succeeded>>

\* the uploaded files: the extension of the name, whether the file exceeds
\* MAX_UPLOAD_SIZE, and what the extraction of its text gives
UploadFiles ==
    {[ext |-> ".pdf", large |-> FALSE, text |-> Return(<<" ", "Jane Doe, engineer", " ">>)],
     [ext |-> ".pdf", large |-> TRUE, text |-> Return(<<"Jane Doe, engineer">>)],
     [ext |-> ".docx", large |-> FALSE, text |-> Raise("BadZipFile")],
     [ext |-> ".txt", large |-> FALSE, text |-> Return(<<" ">>)],
     [ext |-> ".png", large |-> FALSE, text |-> Return(<<"Jane Doe, engineer">>)]}

\* POST /api/upload-resume
ApiUploadResume ==
    /\ pc \in {"idle", "done"}
    /\ request = NoValue
    /\ uuids < MaxUuids
    /\ \E file \in UploadFiles :
          LET endpoint == "/api/upload-resume" IN
          IF file.large THEN Reject(endpoint, "", NoValue, 413)
          ELSE IF file.ext \notin {".pdf", ".docx", ".txt"} THEN Reject(endpoint, "", NoValue, 400)
          ELSE IF ~file.text.ok THEN Reject(endpoint, "", NoValue, 400)
          ELSE IF Strip(file.text.v) = <<>> THEN Reject(endpoint, "", NoValue, 400)
          ELSE LET resume_id == Uuid(uuids + 1) IN
               /\ uuids' = uuids + 1
               /\ resumes' = resumes \cup {resume_id}
               /\ last_response' = Response(endpoint, resume_id, NoValue, 200)
               /\ succeeded' = succeeded \cup {Success(endpoint, resume_id)}
               /\ UNCHANGED <<analyses, optimized, reports>>
    /\ UNCHANGED <<request, pipelineVars, dim_call, dim_result, clientVars, callVars, runVars>>

Text49 == "Backend engineer: Python, AWS, five years, remote"
Text50 == "Backend engineer: Python, AWS, five years, remote."

JobDescriptions ==
    {<<>>, <<" ", " ">>, <<"Python developer">>, <<" ", Text49, " ">>, <<" ", Text50>>}

\* the ids a client may send: ids it was given, ids no response ever held, and
\* names built from the ids it was given
IdsGiven == {Uuid(n) : n \in 1..uuids}
ResumeIdsAsked ==
    {"", "unknown"} \cup IdsGiven \cup {"optimized_resumes/" \o id : id \in IdsGiven}
AnalysisIdsAsked ==
    {"unknown"} \cup IdsGiven \cup {"optimized_resume_" \o id : id \in IdsGiven}

\* the mocked capabilities of SpecHttp: one whose analysis returns a report,
\* one whose analysis raises
HttpMocks ==
    {MockOf(innovation, Return(JsonText(WellFormed(90, JArr(<<Rec1, Rec2>>)))),
            Return(PlainText(<<" ", "A strong fit overall.", " ">>))) :
        innovation \in {Return(JsonText(WellFormed(20, JArr(<<Rec1, Rec2>>)))),
                        Return(JsonText(WellFormed(-20, JObj(<< <<"first", Rec1>> >>))))}}

\* POST /api/analyze, up to the call of analyzer.analyze_resume
ApiAnalyze ==
    /\ pc \in {"idle", "done"}
    /\ request = NoValue
    /\ uuids < MaxUuids
    /\ Len(history) < MaxAnalyses
    /\ Len(gets) + 2 <= MaxHttpGets
    /\ \E resume_id \in ResumeIdsAsked, job_description \in JobDescriptions :
          LET endpoint == "/api/analyze"
              answer(status) ==
                 /\ Reject(endpoint, resume_id, JStr(job_description), status)
                 /\ UNCHANGED <<request, pipelineVars, clientVars, runVars>>
          IN
          IF resume_id = "" \/ job_description = <<>> THEN answer(400)
          ELSE IF PyLen(Strip(job_description)) < MinJobDescription THEN answer(400)
          ELSE IF ~ResumePathExists(resume_id) THEN answer(404)
          ELSE \E readable \in BOOLEAN :
               IF ~readable THEN answer(500)
               ELSE \E sound \in BOOLEAN :
                    LET made == get_openai_client(client_instance,
                                   OpenAIClientInit(api_key, sound, attempts + 1)) IN
                    /\ client_instance' = made.instance
                    /\ attempts' = IF made.constructs THEN attempts + 1 ELSE attempts
                    /\ UNCHANGED api_key
                    /\ IF ~made.outcome.ok
                       THEN \* ResumeAnalyzer() raised
                            /\ gets' = Append(gets, [by |-> "ResumeAnalyzer",
                                                     outcome |-> made.outcome])
                            /\ Reject(endpoint, resume_id, JStr(job_description), 500)
                            /\ UNCHANGED <<request, pipelineVars, runVars>>
                       ELSE /\ gets' = gets \o
                                  <<[by |-> "ResumeAnalyzer", outcome |-> made.outcome],
                                    [by |-> "ScoringEngine", outcome |-> made.outcome]>>
                            /\ request' = [resume_id |-> resume_id,
                                           job_description |-> job_description]
                            /\ mock' \in HttpMocks
                            /\ pc' = "step1"
                            /\ overlapping_skills' = NoValue
                            /\ skill_gaps' = NoValue
                            /\ results' = JObj(<<>>)
                            /\ overall_recommendations' = NoValue
                            /\ outcome' = NoValue
                            /\ calls' = <<>>
                            /\ UNCHANGED <<dimension_weights, history, storeVars, uuids,
                                           last_response, succeeded>>
    /\ UNCHANGED <<dim_call, dim_result, callVars>>

\* POST /api/analyze, from the return of analyzer.analyze_resume on
ApiAnalyzeRespond ==
    /\ pc = "done"
    /\ request # NoValue
    /\ LET endpoint == "/api/analyze" IN
       IF outcome.ok
       THEN LET analysis_id == Uuid(uuids + 1) IN
            /\ uuids' = uuids + 1
            /\ analyses' = analyses \cup
                  {[analysis_id |-> analysis_id, resume_id |-> request.resume_id,
                    job_description |-> request.job_description, results |-> outcome.v]}
            /\ last_response' = Response(endpoint, analysis_id, JStr(request.job_description), 200)
            /\ succeeded' = succeeded \cup {Success(endpoint, analysis_id)}
            /\ UNCHANGED <<resumes, optimized, reports>>
       ELSE Reject(endpoint, request.resume_id, JStr(request.job_description), 500)
    /\ request' = NoValue
    /\ UNCHANGED <<pipelineVars, dim_call, dim_result, clientVars, callVars, runVars>>

\* POST /api/generate-report/{analysis_id}; PDFReportGenerator.generate_report
\* writes reports/<analysis_id>.pdf when the rendering ends, or raises
ApiGenerateReport ==
    /\ pc \in {"idle", "done"}
    /\ request = NoValue
    /\ \E analysis_id \in AnalysisIdsAsked :
          LET endpoint == "/api/generate-report" IN
          IF ~AnalysisPathExists(analysis_id) THEN Reject(endpoint, analysis_id, NoValue, 404)
          ELSE \E rendered \in BOOLEAN :
               IF ~rendered THEN Reject(endpoint, analysis_id, NoValue, 500)
               ELSE /\ reports' = reports \cup {analysis_id}
                    /\ last_response' = Response(endpoint, analysis_id, NoValue, 200)
                    /\ succeeded' = succeeded \cup {Success(endpoint, analysis_id)}
                    /\ UNCHANGED <<resumes, analyses, optimized, uuids>>
    /\ UNCHANGED <<request, pipelineVars, dim_call, dim_result, clientVars, callVars, runVars>>

\* GET /api/download-report/{report_id}
ApiDownloadReport ==
    /\ pc \in {"idle", "done"}
    /\ request = NoValue
    /\ \E report_id \in AnalysisIdsAsked :
          LET endpoint == "/api/download-report" IN
          IF report_id \notin reports THEN Reject(endpoint, report_id, NoValue, 404)
          ELSE /\ last_response' = Response(endpoint, report_id, NoValue, 200)
               /\ succeeded' = succeeded \cup {Success(endpoint, report_id)}
               /\ UNCHANGED <<storeVars, uuids>>
    /\ UNCHANGED <<request, pipelineVars, dim_call, dim_result, clientVars, callVars, runVars>>

OptimizeCompletions ==
    {Raise(APIError), Return(None), Return(PlainText(<<" ", "# Jane Doe", " ">>))}

\* ResumeGenerator.generate_optimized_resume, given what chat_completion did
generate_optimized_resume(completion) ==
    IF ~completion.ok THEN completion
    ELSE IF completion.v.content = "none" THEN Raise("AttributeError")
    ELSE Return(Strip(completion.v.s))

\* POST /api/generate-optimized-resume
ApiGenerateOptimizedResume ==
    /\ pc \in {"idle", "done"}
    /\ request = NoValue
    /\ Len(gets) < MaxHttpGets
    /\ \E analysis_id \in AnalysisIdsAsked :
          LET endpoint == "/api/generate-optimized-resume"
              answer(status) ==
                 /\ Reject(endpoint, analysis_id, NoValue, status)
                 /\ UNCHANGED <<clientVars, calls>>
          IN
          IF ~AnalysisPathExists(analysis_id) THEN answer(404)
          ELSE IF ~ResumePathExists(AnalysisData(analysis_id).resume_id) THEN answer(404)
          ELSE \E sound \in BOOLEAN :
               LET made == get_openai_client(client_instance,
                              OpenAIClientInit(api_key, sound, attempts + 1)) IN
               /\ client_instance' = made.instance
               /\ attempts' = IF made.constructs THEN attempts + 1 ELSE attempts
               /\ gets' = Append(gets, [by |-> "ResumeGenerator", outcome |-> made.outcome])
               /\ UNCHANGED api_key
               /\ IF ~made.outcome.ok
                  THEN Reject(endpoint, analysis_id, NoValue, 500) /\ UNCHANGED calls
                  ELSE \E completion \in OptimizeCompletions :
                       LET r == generate_optimized_resume(completion) IN
                       /\ calls' = Append(calls, Call("generate_optimized_resume", "", completion))
                       /\ IF ~r.ok
                          THEN Reject(endpoint, analysis_id, NoValue, 500)
                          ELSE /\ optimized' = optimized \cup {analysis_id}
                               /\ last_response' = Response(endpoint, analysis_id, NoValue, 200)
                               /\ succeeded' = succeeded \cup {Success(endpoint, analysis_id)}
                               /\ UNCHANGED <<resumes, analyses, reports, uuids>>
    /\ UNCHANGED <<request, dimension_weights, pc, overlapping_skills, skill_gaps, results,
                   overall_recommendations, outcome, dim_call, dim_result, callVars, runVars>>

\* GET /api/download-optimized-resume/{analysis_id}; convert_to_pdf writes
\* reports/optimized_resume_<analysis_id>.pdf when the rendering ends, or raises
ApiDownloadOptimizedResume ==
    /\ pc \in {"idle", "done"}
    /\ request = NoValue
    /\ \E analysis_id \in AnalysisIdsAsked :
          LET endpoint == "/api/download-optimized-resume" IN
          IF analysis_id \notin optimized THEN Reject(endpoint, analysis_id, NoValue, 404)
          ELSE \E rendered \in BOOLEAN :
               IF ~rendered THEN Reject(endpoint, analysis_id, NoValue, 500)
               ELSE /\ reports' = reports \cup {"optimized_resume_" \o analysis_id}
                    /\ last_response' = Response(endpoint, analysis_id, NoValue, 200)
                    /\ succeeded' = succeeded \cup {Success(endpoint, analysis_id)}
                    /\ UNCHANGED <<resumes, analyses, optimized, uuids>>
    /\ UNCHANGED <<request, pipelineVars, dim_call, dim_result, clientVars, callVars, runVars>>

HttpNext ==
    \/ ApiUploadResume
    \/ ApiAnalyze
    \/ Step1 \/ Step2 \/ Step3 \/ Step4 \/ Step5
    \/ ApiAnalyzeRespond
    \/ ApiGenerateReport
    \/ ApiDownloadReport
    \/ ApiGenerateOptimizedResume
    \/ ApiDownloadOptimizedResume

SpecHttp == Init /\ [][HttpNext]_vars

-----------------------------------------------------------------------------
(* Claims about evaluate_dimension (SpecDim) *)

DimReturned == dim_result # NoValue

\* the answer has the shape the prompt asks for, with a numeric score
DimCallWellFormed ==
    /\ dim_call.ok
    /\ dim_call.v.content = "json"
    /\ dim_call.v.value.t = "obj"
    /\ Keys(dim_call.v.value) = {"score", "analysis", "recommendations"}
    /\ Get(dim_call.v.value, "score").t = "num"
    /\ Get(dim_call.v.value, "analysis").t = "str"
    /\ Get(dim_call.v.value, "recommendations").t = "arr"

DimCallScore == Get(dim_call.v.value, "score").n

\* C1: whatever the capability answered (a thrown error, no JSON, JSON of any
\* shape, a well-formed answer with any numeric score), the result of
\* evaluate_dimension carries a numeric score with 0 <= score <= 100; a
\* well-formed answer's score above 100 becomes 100, one below 0 becomes 0, one
\* within the range is kept.
C1_ScoreClamped ==
    DimReturned =>
        /\ dim_result.ok
        /\ dim_result.v.t = "obj"
        /\ HasKey(dim_result.v, "score")
        /\ Get(dim_result.v, "score").t = "num"
        /\ Get(dim_result.v, "score").n >= 0
        /\ Get(dim_result.v, "score").n <= 100
        /\ DimCallWellFormed =>
              /\ DimCallScore > 100 => Get(dim_result.v, "score").n = 100
              /\ DimCallScore < 0 => Get(dim_result.v, "score").n = 0
              /\ DimCallScore \in 0..100 => Get(dim_result.v, "score").n = DimCallScore

C1_Witness ==
    /\ DimReturned
    /\ DimCallWellFormed
    /\ DimCallScore = 150
    /\ Get(dim_result.v, "score").n = 100

\* the completion call raised, or its content could not be parsed as JSON
DimCallFailed == ~dim_call.ok \/ dim_call.v.content # "json"

DimCallError ==
    IF ~dim_call.ok THEN dim_call.e
    ELSE IF dim_call.v.content = "none" THEN "TypeError" ELSE "JSONDecodeError"

\* C2: evaluate_dimension always returns and never raises; when the completion
\* call raised or its content was not parseable, the returned result is the
\* degraded one: exactly the keys score, analysis, recommendations, score 0, an
\* analysis string made of the fixed prefix and the error's text, and a
\* recommendations list holding the one placeholder string.
C2_NeverPropagates ==
    DimReturned =>
        /\ dim_result.ok
        /\ DimCallFailed =>
              /\ dim_result.v.t = "obj"
              /\ Len(dim_result.v.kv) = 3
              /\ Keys(dim_result.v) = {"score", "analysis", "recommendations"}
              /\ Get(dim_result.v, "score") = JNum(0)
              /\ Get(dim_result.v, "analysis") =
                     JStr(<<"Error evaluating this dimension: ", DimCallError>>)
              /\ Get(dim_result.v, "recommendations") =
                     JArr(<<JStr(<<"Unable to generate recommendations due to an error.">>)>>)

C2_Witness ==
    /\ DimReturned
    /\ ~dim_call.ok
    /\ dim_result.ok
    /\ Get(dim_result.v, "score") = JNum(0)

-----------------------------------------------------------------------------
(* Claims about evaluate_all_dimensions and analyze_resume (Spec) *)

Returned == pc = "done" /\ outcome.ok
Raised == pc = "done" /\ ~outcome.ok
Report == outcome.v

KeySeq(obj) == [i \in 1..Len(obj.kv) |-> obj.kv[i][1]]

IsDimCall(c) == c.op = "evaluate_dimension"
DimCalls == SelectSeq(calls, IsDimCall)

AggregateKeys == DIMENSIONS \o <<"overall_score", "dimension_weights">>
HasAggregate == KeySeq(results) = AggregateKeys

ScoreOf(i) == Get(Get(results, DIMENSIONS[i]), "score").n

\* the weights as the claim states them, in dimension order, in hundredths
StatedWeights == <<20, 15, 15, 10, 10, 8, 8, 9, 5>>

RECURSIVE StatedSum(_)
StatedSum(i) == IF i = 0 THEN 0 ELSE ScoreOf(i) * StatedWeights[i] + StatedSum(i - 1)

\* C3: in every aggregate of evaluate_all_dimensions, overall_score is a
\* one-decimal number nearest to the sum of score x weight over the nine
\* dimensions (10 * tenths differs from the sum in hundredths by at most 5);
\* the scores 90,70,60,50,40,30,20,10,0 give 51.4; and a returned report
\* carries that same overall_score.
C3_OverallScore ==
    HasAggregate =>
        LET o == Get(results, "overall_score") IN
        /\ o.t = "float1"
        /\ 10 * o.tenths - StatedSum(9) \in -5..5
        /\ (\A i \in 1..9 : ScoreOf(i) = ExampleScores[i]) => o.tenths = 514
        /\ Returned => Get(Report, "overall_score") = o

C3_Witness ==
    /\ Returned
    /\ \A i \in 1..9 : ScoreOf(i) = ExampleScores[i]
    /\ Get(Report, "overall_score") = JFloat1(514)

RECURSIVE SumOfWeights(_)
SumOfWeights(i) == IF i = 0 THEN 0 ELSE dimension_weights[DIMENSIONS[i]] + SumOfWeights(i - 1)

\* C4: in every state the weight table's keys are exactly the nine dimension names, every
\* weight lies strictly between 0 and 1, the weights in dimension order are
\* 0.20, 0.15, 0.15, 0.10, 0.10, 0.08, 0.08, 0.09, 0.05 and they sum to 1.00
\* (all in hundredths).
C4_WeightTable ==
    /\ Len(DIMENSIONS) = 9
    /\ Cardinality(DimensionNames) = 9
    /\ DOMAIN dimension_weights = DimensionNames
    /\ \A d \in DOMAIN dimension_weights : dimension_weights[d] > 0 /\ dimension_weights[d] < 100
    /\ [i \in 1..9 |-> dimension_weights[DIMENSIONS[i]]] = StatedWeights
    /\ SumOfWeights(9) = 100

\* the table was used: an aggregate was computed with it and a report carries it
C4_Witness ==
    /\ Returned
    /\ Get(Report, "dimension_weights") = WeightsRef
    /\ 10 * Get(Report, "overall_score").tenths - StatedSum(9) \in -5..5

AllCallsRaised == \A i \in 1..Len(calls) : calls[i].raised

C6_NineDimensionKeys ==
    Returned =>
        LET dims == Get(Report, "dimensions") IN
        /\ dims.t = "obj"
        /\ Len(dims.kv) = 9
        /\ Keys(dims) = DimensionNames
        /\ \A i \in 1..9 :
              DimCalls[i].raised =>
                 /\ Get(Get(dims, DIMENSIONS[i]), "score") = JNum(0)
                 /\ Get(Get(dims, DIMENSIONS[i]), "recommendations") =
                        JArr(<<JStr(<<"Unable to generate recommendations due to an error.">>)>>)

C6_Witness ==
    /\ Returned
    /\ Keys(Get(Report, "dimensions")) = DimensionNames
    /\ \E i \in 1..9 : DimCalls[i].raised
    /\ \E i \in 1..9 : ~DimCalls[i].raised

\* C7: the dimension calls made so far are the first dimensions of the fixed
\* list, one call each, in list order (no retry, none skipped); while the loop
\* runs each call has produced one entry of the result mapping; and once the
\* loop is left all nine calls were made, whatever failed on the way, and the
\* aggregate has the nine dimension keys followed by overall_score and
\* dimension_weights.
C7_FailureIsolated ==
    /\ Len(DimCalls) <= 9
    /\ \A i \in 1..Len(DimCalls) : DimCalls[i].dim = DIMENSIONS[i]
    /\ pc \in {"idle", "step1", "step2"} => Len(DimCalls) = 0
    /\ pc = "step3" => /\ Len(DimCalls) < 9
                       /\ KeySeq(results) = SubSeq(DIMENSIONS, 1, Len(DimCalls))
    /\ pc \in {"step4", "step5", "done"} => /\ Len(DimCalls) = 9
                                            /\ HasAggregate

\* a dimension failed, the later ones were still evaluated and the aggregate returned
C7_Witness ==
    /\ pc = "step4"
    /\ HasAggregate
    /\ DimCalls[1].raised
    /\ Len(DimCalls) = 9
    /\ \A i \in 2..9 : ~DimCalls[i].raised /\ ScoreOf(i) = ExampleScores[i]

ReportKeys ==
    <<"overall_score", "executive_summary", "overlapping_skills", "skill_gaps",
      "dimensions", "dimension_weights", "overall_recommendations">>

\* C8: until analyze_resume ends its caller has nothing; when it ends the
\* caller has either an exception or a report, and a report is a mapping with
\* exactly the seven fields, each of them set (none missing, none null).
C8_ReportOrRaise ==
    /\ pc # "done" => outcome = NoValue
    /\ pc = "done" =>
          /\ outcome # NoValue
          /\ outcome.ok =>
                /\ Report.t = "obj"
                /\ KeySeq(Report) = ReportKeys
                /\ \A i \in 1..Len(Report.kv) : Report.kv[i][2].t \notin {"unset", "null"}

C8_Witness ==
    /\ Returned
    /\ KeySeq(Report) = ReportKeys
    /\ Get(Report, "overlapping_skills") = JArr(<<>>)
    /\ Get(Report, "skill_gaps") = JArr(<<>>)

\* C9 as stated: analyze_resume raises only when a completion call of the
\* scoring stage raised.
C9_Original == Raised => \E i \in 1..Len(DimCalls) : DimCalls[i].raised

SummaryCall == calls[Len(calls)]

\* C10 as stated: the executive_summary of every returned report is a
\* non-empty string, and it is the template sentence with the overall score
\* when the summary call raised.
C10_Original ==
    Returned =>
        LET summary == Get(Report, "executive_summary") IN
        /\ summary.t = "str"
        /\ Len(summary.s) > 0
        /\ SummaryCall.raised =>
              summary = JStr(<<"This resume shows a ",
                               FormatFloat1(Get(Report, "overall_score").tenths),
                               "% fit for the target role based on our analysis.">>)

-----------------------------------------------------------------------------
(* Claims about generate_overall_recommendations (SpecRec) *)

RecReturned == ret # NoValue /\ ret.ok

ArgScore(i) == Get(Get(arg, DIMENSIONS[i]), "score").n
ArgRecs(i) == Get(Get(arg, DIMENSIONS[i]), "recommendations")

\* C11 (as stated): generate_overall_recommendations never fails: on every
\* aggregate of evaluate_all_dimensions, also one holding a 'recommendations'
\* value that is not a list, it returns a list of strings.
C11_Original ==
    ret # NoValue =>
       /\ ret.ok
       /\ ret.v.t = "arr"
       /\ \A k \in 1..Len(ret.v.a) : ret.v.a[k].t = "str"

\* dimension i comes before dimension j: lower score, or the same score and
\* earlier in the fixed order of the dimensions
Weaker(i, j) == ArgScore(i) < ArgScore(j) \/ (ArgScore(i) = ArgScore(j) /\ i < j)

Below70 == {i \in 1..Len(DIMENSIONS) : ArgScore(i) < 70}
Kept == {i \in Below70 : Cardinality({j \in Below70 : Weaker(j, i)}) < 3}
Emitting == {i \in Kept : Truthy(ArgRecs(i))}

\* an entry written for a dimension: "**<dimension>** (Score: <score>): <text>"
IsDimEntry(e) == e.t = "str" /\ Len(e.s) > 1 /\ e.s[1] = "**"
DimEntries == SelectSeq(ret.v.a, IsDimEntry)

\* C12: the dimensions selected are exactly those scoring strictly below 70
\* (never one at 70, never the overall_score or dimension_weights key); they
\* are taken by ascending score, ties in the fixed order of the dimensions;
\* the first three at most are kept; the entries written for dimensions are
\* one for each kept dimension that has a recommendation, in that order.
C12_SelectionAndOrder ==
    RecReturned =>
       /\ Len(DimEntries) = Cardinality(Emitting)
       /\ \A i \in Emitting :
             LET k == Cardinality({j \in Emitting : Weaker(j, i)}) + 1 IN
             /\ DimEntries[k].s[2] = DIMENSIONS[i]
             /\ DimEntries[k].s[5] = ToString(ArgScore(i))

\* more than three dimensions below 70, a tie cut by the limit of three, a
\* dimension at exactly 70, and exactly two entries
C12_Witness ==
    /\ RecReturned
    /\ Cardinality(Below70) > 3
    /\ \E i \in Kept : \E j \in Below70 \ Kept : ArgScore(i) = ArgScore(j)
    /\ \E i \in 1..Len(DIMENSIONS) : ArgScore(i) = 70
    /\ Cardinality(Emitting) = 2
    /\ Len(ret.v.a) = 2

AllStrong == \A i \in 1..Len(DIMENSIONS) : ArgScore(i) >= 70

\* C13: when all nine scores are at least 70, the result is exactly the three
\* generic strings, in their fixed order.
C13_AllStrongGivesGeneric ==
    (ret # NoValue /\ AllStrong) => ret = Return(JArr(GenericRecommendations))

C13_Witness ==
    /\ ret # NoValue
    /\ \A i \in 1..Len(DIMENSIONS) : ArgScore(i) = 95
    /\ Len(ret.v.a) = 3

\* C14 (as stated): when some dimension scores below 70, every entry of the
\* result is written for one of the three weakest dimensions; a weak dimension
\* with an empty recommendations list is replaced by nothing, and the generic
\* strings appear only when no dimension scores below 70.
C14_Original ==
    (RecReturned /\ Below70 # {}) =>
       \A k \in 1..Len(ret.v.a) :
          /\ IsDimEntry(ret.v.a[k])
          /\ \E i \in Kept : ret.v.a[k].s[2] = DIMENSIONS[i]

-----------------------------------------------------------------------------
(* Claims about extract_overlapping_skills (SpecSkills) *)

ArgParsed == ret # NoValue /\ arg.ok /\ arg.v.content = "json"
Parsed == arg.v.value

\* the value the stated order of shapes resolves to
StatedSkills(parsed) ==
    CASE parsed.t = "arr" -> parsed
      [] parsed.t = "obj" /\ HasKey(parsed, "skills") -> Get(parsed, "skills")
      [] parsed.t = "obj" /\ ~HasKey(parsed, "skills") /\ HasKey(parsed, "overlapping_skills") ->
            Get(parsed, "overlapping_skills")
      [] /\ parsed.t = "obj" /\ ~HasKey(parsed, "skills") /\ ~HasKey(parsed, "overlapping_skills")
         /\ \E i \in 1..Len(parsed.kv) : parsed.kv[i][2].t = "arr" ->
            LET first == CHOOSE i \in 1..Len(parsed.kv) :
                            /\ parsed.kv[i][2].t = "arr"
                            /\ \A j \in 1..(i - 1) : parsed.kv[j][2].t # "arr"
            IN  parsed.kv[first][2]
      [] OTHER -> JArr(<<>>)

\* C15 (as stated): the parsed response is resolved by shape, in this order:
\* a bare array is returned as is; else the value of key 'skills'; else the
\* value of key 'overlapping_skills'; else the first value, in key order, that
\* is an array; else the empty sequence.
C15_Original == ArgParsed => ret = Return(StatedSkills(Parsed))

\* a value that the logging after the resolution can print: an array whose
\* first ten elements are strings, a string, or an empty object
Printable(value) ==
    \/ /\ value.t = "arr"
       /\ \A i \in 1..Len(value.a) : i <= 10 => value.a[i].t = "str"
    \/ value.t = "str"
    \/ value = JObj(<<>>)

\* C15 (amended): the value resolved in the stated order is returned when it is
\* an array whose first ten elements are strings, a string or an empty object;
\* any other resolved value gives the empty sequence.
C15_ResolvedThenPrinted ==
    ArgParsed =>
       ret = Return(IF Printable(StatedSkills(Parsed)) THEN StatedSkills(Parsed) ELSE JArr(<<>>))

\* 'overlapping_skills' comes first in the object, 'skills' second, and the
\* value of 'skills' is what is returned
C15_Witness ==
    /\ ArgParsed
    /\ Parsed.t = "obj"
    /\ KeySeq(Parsed) = <<"overlapping_skills", "skills">>
    /\ Get(Parsed, "overlapping_skills") = JArr(<<AWS>>)
    /\ ret = Return(JArr(<<Python, AWS>>))

\* the parsed value has none of the recognised shapes
UnrecognizedShape ==
    \/ Parsed.t \notin {"arr", "obj"}
    \/ /\ Parsed.t = "obj"
       /\ ~HasKey(Parsed, "skills")
       /\ ~HasKey(Parsed, "overlapping_skills")
       /\ \A i \in 1..Len(Parsed.kv) : Parsed.kv[i][2].t # "arr"

\* C16: extract_overlapping_skills never propagates an error; when the call
\* raised, the response is not JSON, or the parsed value has no recognised
\* shape (a number, a string, null, an object without a usable key), the result
\* is the empty sequence.
C16_NeverPropagates ==
    ret # NoValue =>
       /\ ret.ok
       /\ (~arg.ok \/ arg.v.content # "json" \/ UnrecognizedShape) => ret.v = JArr(<<>>)

\* a JSON number as the whole response
C16_Witness ==
    /\ ArgParsed
    /\ Parsed = JNum(5)
    /\ ret = Return(JArr(<<>>))

-----------------------------------------------------------------------------
(* Claims about identify_skill_gaps (SpecGaps) *)

HasGapsArray == Parsed.t = "obj" /\ HasKey(Parsed, "gaps") /\ Get(Parsed, "gaps").t = "arr"
AllGapsObjects == \A i \in 1..Len(Get(Parsed, "gaps").a) : Get(Parsed, "gaps").a[i].t = "obj"

\* C17: identify_skill_gaps never propagates an error; when the call raised,
\* the response is not JSON, the parsed value is not an object or an element of
\* 'gaps' is not an object, the result is the empty sequence; an object without
\* 'gaps' gives the empty sequence too; otherwise the 'gaps' array is returned
\* unchanged, in order, duplicates included.
C17_GapsOrEmpty ==
    ret # NoValue =>
       /\ ret.ok
       /\ (~arg.ok \/ arg.v.content # "json") => ret.v = JArr(<<>>)
       /\ ArgParsed =>
             /\ Parsed.t # "obj" => ret.v = JArr(<<>>)
             /\ (Parsed.t = "obj" /\ ~HasKey(Parsed, "gaps")) => ret.v = JArr(<<>>)
             /\ (HasGapsArray /\ ~AllGapsObjects) => ret.v = JArr(<<>>)
             /\ (HasGapsArray /\ AllGapsObjects) => ret.v = Get(Parsed, "gaps")

\* three gaps, the first and the third the same, returned as they came
C17_Witness ==
    /\ ArgParsed
    /\ HasGapsArray
    /\ Len(Get(Parsed, "gaps").a) = 3
    /\ Get(Parsed, "gaps").a[1] = Get(Parsed, "gaps").a[3]
    /\ Get(Parsed, "gaps").a[1] # Get(Parsed, "gaps").a[2]
    /\ ret = Return(Get(Parsed, "gaps"))

-----------------------------------------------------------------------------
(* Claims about the order of the calls (Spec) and about several runs         *)
(* (SpecRuns, SpecCaller)                                                    *)

ExpectedCalls ==
    << <<"extract_overlapping_skills", "">>, <<"identify_skill_gaps", "">> >>
    \o [i \in 1..Len(DIMENSIONS) |-> <<"evaluate_dimension", DIMENSIONS[i]>>]
    \o << <<"generate_executive_summary", "">> >>

CallsMade == [i \in 1..Len(calls) |-> <<calls[i].op, calls[i].dim>>]

\* C18 (as stated): whatever the capability answers, a run of analyze_resume
\* makes each of its twelve completion calls exactly once and in this order:
\* skill overlap, skill gaps, the nine dimensions in their fixed order, summary.
C18_Original == pc = "done" => CallsMade = ExpectedCalls

C20_Original ==
    /\ dimension_weights = DIMENSION_WEIGHTS
    /\ \A k \in 1..Len(history) : history[k].weights = DIMENSION_WEIGHTS

-----------------------------------------------------------------------------
(* More claims about evaluate_dimension (SpecDim) *)

DimCallParsedObject ==
    dim_call.ok /\ dim_call.v.content = "json" /\ dim_call.v.value.t = "obj"

DimCallLacksKey ==
    \E key \in {"score", "analysis", "recommendations"} : ~HasKey(dim_call.v.value, key)

\* C21: a parsed response that lacks one of the keys score, analysis,
\* recommendations is never accepted in part: the result is the degraded one
\* (score 0, the error analysis, the single placeholder recommendation), also
\* when the response carried a valid score.
C21_MissingKeyDegrades ==
    (DimReturned /\ DimCallParsedObject /\ DimCallLacksKey) =>
        /\ dim_result.ok
        /\ KeySeq(dim_result.v) = <<"score", "analysis", "recommendations">>
        /\ Get(dim_result.v, "score") = JNum(0)
        /\ Get(dim_result.v, "analysis").t = "str"
        /\ Len(Get(dim_result.v, "analysis").s) > 0
        /\ Get(dim_result.v, "analysis").s[1] = "Error evaluating this dimension: "
        /\ Get(dim_result.v, "recommendations") =
               JArr(<<JStr(<<"Unable to generate recommendations due to an error.">>)>>)

\* a response with a valid score of 35 and recommendations, without analysis
C21_Witness ==
    /\ DimReturned
    /\ DimCallParsedObject
    /\ HasKey(dim_call.v.value, "score")
    /\ Get(dim_call.v.value, "score") = JNum(35)
    /\ HasKey(dim_call.v.value, "recommendations")
    /\ ~HasKey(dim_call.v.value, "analysis")
    /\ Get(dim_result.v, "score") = JNum(0)

-----------------------------------------------------------------------------
(* Claims about the order of steps 1 to 3 (SpecOrder) *)

\* the run under way, or just ended, is the reordered one
Reordered == (Len(history) = 1 /\ pc # "done") \/ Len(history) = 2

DimCallOrder == [i \in 1..Len(DimCalls) |-> DimCalls[i].dim]

CallIndex(op) == CHOOSE k \in 1..Len(calls) : calls[k].op = op

\* C22: with answers that depend only on the request, the result stored for
\* each dimension and the overall_score are those of the run in the order of
\* the code, whatever the order of the nine evaluations; and when steps 1, 2
\* and 3 are interleaved in any way, the report (or the error raised) is that
\* of the run in the order of the code.
C22_OrderIndependent ==
    /\ (Reordered /\ HasKey(results, "overall_score")) =>
          /\ \A i \in 1..Len(DIMENSIONS) :
                Get(results, DIMENSIONS[i]) = Get(history[1].results, DIMENSIONS[i])
          /\ Get(results, "overall_score") = Get(history[1].results, "overall_score")
    /\ (Len(history) = 2 /\ DimCallOrder = DIMENSIONS) =>
          history[2].outcome = history[1].outcome

\* the reordered run began with a dimension evaluation and identified the gaps
\* before it extracted the overlap; it returned the report of the first run
C22_Witness ==
    /\ Len(history) = 2
    /\ DimCallOrder = DIMENSIONS
    /\ calls[1].op = "evaluate_dimension"
    /\ CallIndex("identify_skill_gaps") < CallIndex("extract_overlapping_skills")
    /\ history[2].outcome.ok
    /\ history[2].outcome = history[1].outcome

-----------------------------------------------------------------------------
(* More claims about generate_overall_recommendations (SpecRec) *)

\* the text of the first recommendation of dimension i
FirstRecommendation(i) ==
    IF ArgRecs(i).t = "arr" THEN PyStr(ArgRecs(i).a[1]) ELSE <<ArgRecs(i).s[1]>>

\* C23 (as stated): each entry written for a selected dimension is exactly
\* "<dimension> (Score: <score>): <its first recommendation>", nothing around
\* the name of the dimension.
C23_Original ==
    (RecReturned /\ Emitting # {}) =>
       \A k \in 1..Len(ret.v.a) : \E i \in Emitting :
          ret.v.a[k] = JStr(<<DIMENSIONS[i], " (Score: ", ToString(ArgScore(i)), "): ">>
                            \o FirstRecommendation(i))

\* C23 (amended): each entry written for a selected dimension is exactly
\* "**<dimension>** (Score: <score>): <its first recommendation>": the name
\* between two pairs of asterisks, and of the recommendations only the first.
C23_EntryFormat ==
    (RecReturned /\ Emitting # {}) =>
       \A k \in 1..Len(ret.v.a) : \E i \in Emitting :
          ret.v.a[k] = JStr(<<"**", DIMENSIONS[i], "**", " (Score: ", ToString(ArgScore(i)), "): ">>
                            \o FirstRecommendation(i))

\* a selected dimension with two recommendations
C23_Witness ==
    /\ RecReturned
    /\ \E i \in Emitting :
          /\ ArgRecs(i) = JArr(<<Rec1, Rec2>>)
          /\ \E k \in 1..Len(ret.v.a) :
                ret.v.a[k] = JStr(<<"**", DIMENSIONS[i], "**", " (Score: ", "69", "): ",
                                    "Add metrics to each role">>)

-----------------------------------------------------------------------------
(* More claims about extract_overlapping_skills (SpecSkills) and             *)
(* identify_skill_gaps (SpecGaps)                                            *)

\* C24 (as stated): whatever the capability answers, the value returned by
\* extract_overlapping_skills is a sequence of strings, also when the key
\* 'skills' or 'overlapping_skills' holds a single string or another value
\* that is not an array, and when an array holds elements that are not strings.
C24_Original ==
    ret # NoValue =>
       /\ ret.ok
       /\ ret.v.t = "arr"
       /\ \A i \in 1..Len(ret.v.a) : ret.v.a[i].t = "str"

\* C25 (as stated): whatever 'gaps' array the capability returns, every element
\* of the sequence returned by identify_skill_gaps has the three fields skill,
\* importance and suggestion, with importance one of high, medium, low.
C25_Original ==
    (ret # NoValue /\ ret.ok /\ ret.v.t = "arr") =>
       \A i \in 1..Len(ret.v.a) :
          /\ ret.v.a[i].t = "obj"
          /\ Keys(ret.v.a[i]) = {"skill", "importance", "suggestion"}
          /\ Get(ret.v.a[i], "importance") \in {JStr(<<"high">>), JStr(<<"medium">>), JStr(<<"low">>)}

-----------------------------------------------------------------------------
(* Claims about get_openai_client (SpecClient) *)

Succeeded == {k \in 1..Len(gets) : gets[k].outcome.ok}
Failed == {k \in 1..Len(gets) : ~gets[k].outcome.ok}

\* C26: over any sequence of calls, a client is constructed successfully at
\* most once; every call from the first success on returns that one instance,
\* whichever class asks; a call whose construction fails raises and leaves
\* nothing cached, so that every call up to the first success attempts a
\* construction.
C26_LazySingleton ==
    /\ \A j, k \in Succeeded : gets[j].outcome = gets[k].outcome
    /\ \A j \in Succeeded : \A k \in 1..Len(gets) : j < k => gets[k].outcome = gets[j].outcome
    /\ Succeeded = {} => (client_instance = ClientNone /\ attempts = Len(gets))
    /\ Succeeded # {} =>
          /\ client_instance = gets[CHOOSE k \in Succeeded : TRUE].outcome.v
          /\ attempts = Cardinality(Failed) + 1

\* two failures (first without the key), then a success, then another class
\* given the same instance
C26_Witness ==
    /\ Len(gets) = 4
    /\ gets[1].outcome = Raise("ValueError: OPENAI_API_KEY not found in environment variables")
    /\ ~gets[2].outcome.ok
    /\ gets[3].outcome.ok
    /\ gets[4].outcome = gets[3].outcome
    /\ gets[4].by # gets[3].by
    /\ attempts = 3

-----------------------------------------------------------------------------
(* Claims about the range of overall_score (SpecScore) *)

OverallTenths == Get(results, "overall_score").tenths

AllDegraded ==
    \A i \in 1..Len(DIMENSIONS) : Get(results, DIMENSIONS[i]) = DegradedResult(APIError)

AllScores100 == \A i \in 1..Len(DIMENSIONS) : ScoreOf(i) = 100

-----------------------------------------------------------------------------
(* Claims about degraded dimensions in overall_recommendations (SpecScore) *)

Recommended == pc \in {"step5", "done"} /\ overall_recommendations # NoValue

Degraded(i) == Get(results, DIMENSIONS[i]) = DegradedResult(APIError)

\* the entry written for a degraded dimension
PlaceholderEntry(i) ==
    JStr(<<"**", DIMENSIONS[i], "**", " (Score: ", "0", "): ">> \o PlaceholderRecommendation)

EntryFor(i) ==
    {k \in 1..Len(overall_recommendations.a) :
        /\ IsDimEntry(overall_recommendations.a[k])
        /\ overall_recommendations.a[k].s[2] = DIMENSIONS[i]}

\* the dimensions of score 0 that come before dimension i in the fixed order
ZeroBefore(i) == {j \in 1..(i - 1) : ScoreOf(j) = 0}

\* C28 as stated: every degraded dimension has its placeholder emitted as an
\* overall recommendation, before the entry of every dimension with a positive
\* score; when all nine evaluations fail the result is the three placeholder
\* entries of the first three dimensions.
C28_Original ==
    Recommended =>
       /\ \A i \in 1..Len(DIMENSIONS) : Degraded(i) =>
             /\ \E k \in EntryFor(i) : overall_recommendations.a[k] = PlaceholderEntry(i)
             /\ \A j \in 1..Len(DIMENSIONS) : ScoreOf(j) > 0 =>
                   \A k \in EntryFor(i), l \in EntryFor(j) : k < l
       /\ AllDegraded =>
             overall_recommendations =
                JArr(<<PlaceholderEntry(1), PlaceholderEntry(2), PlaceholderEntry(3)>>)

\* C28 (amended): a degraded dimension sorts before every dimension with a
\* positive score, and after the dimensions of score 0 that precede it in the
\* fixed order: when fewer than three of those precede it, its placeholder
\* entry is emitted, at the position after theirs; when three or more precede
\* it, the limit of three cuts it and no entry is written for it.  When all
\* nine evaluations fail the result is the three placeholder entries of the
\* first three dimensions.
C28_DegradedRankedWeak ==
    Recommended =>
       /\ \A i \in 1..Len(DIMENSIONS) : Degraded(i) =>
             /\ IF Cardinality(ZeroBefore(i)) < FocusCount
                THEN LET k == Cardinality({j \in ZeroBefore(i) :
                                    Truthy(Get(Get(results, DIMENSIONS[j]), "recommendations"))}) + 1
                     IN  /\ EntryFor(i) = {k}
                         /\ overall_recommendations.a[k] = PlaceholderEntry(i)
                ELSE EntryFor(i) = {}
             /\ \A j \in 1..Len(DIMENSIONS) : ScoreOf(j) > 0 =>
                   \A k \in EntryFor(i), l \in EntryFor(j) : k < l
       /\ AllDegraded =>
             overall_recommendations =
                JArr(<<PlaceholderEntry(1), PlaceholderEntry(2), PlaceholderEntry(3)>>)

\* a degraded dimension emitted ahead of an earlier dimension that scored 35,
\* and another degraded dimension cut by the limit of three
C28_Witness ==
    /\ Recommended
    /\ ScoreOf(2) = 35
    /\ \E i \in 3..Len(DIMENSIONS) :
          /\ Degraded(i)
          /\ EntryFor(i) = {1}
    /\ EntryFor(2) = {3}
    /\ Len(overall_recommendations.a) = 3

-----------------------------------------------------------------------------
(* Claims about the HTTP layer (SpecHttp) *)

\* upload_resume answered 200 with this resume_id
Uploaded(resume_id) == Success("/api/upload-resume", resume_id) \in succeeded

ValidAnalysisRequest(resume_id, job_description) ==
    /\ resume_id # ""
    /\ job_description # <<>>
    /\ PyLen(Strip(job_description)) >= MinJobDescription

\* C29 as stated: POST /api/analyze stores a record only when analyze_resume
\* returned a report; an empty resume_id or job_description, or a job
\* description of fewer than 50 characters after trimming, is answered 400 and
\* a resume_id that no upload gave is answered 404, both before an analyzer is
\* created or a completion call is made; an analysis that raises is answered
\* 500; none of these changes the stored records.  A request answered 200
\* stores exactly one record, under an analysis_id not in use.
C29_Original ==
    [][/\ analyses' # analyses => (pc = "done" /\ outcome.ok /\ ApiAnalyzeRespond)
       /\ (ApiAnalyze /\ request' = NoValue) =>
             LET r == last_response' IN
             /\ analyses' = analyses
             /\ ~ValidAnalysisRequest(r.id, r.body.s) => r.status = 400
             /\ (ValidAnalysisRequest(r.id, r.body.s) /\ ~Uploaded(r.id)) => r.status = 404
             /\ r.status \in {400, 404} =>
                   /\ <<client_instance, attempts, gets>>' = <<client_instance, attempts, gets>>
                   /\ calls' = calls
       /\ (ApiAnalyze /\ request' # NoValue) =>
             /\ ValidAnalysisRequest(request'.resume_id, request'.job_description)
             /\ Uploaded(request'.resume_id)
       /\ ApiAnalyzeRespond =>
             IF outcome.ok
             THEN /\ last_response'.status = 200
                  /\ analyses \subseteq analyses'
                  /\ Cardinality(analyses' \ analyses) = 1
                  /\ \A a \in analyses' \ analyses :
                        /\ a.analysis_id = last_response'.id
                        /\ ~AnalysisPathExists(a.analysis_id)
                        /\ a.results = outcome.v
             ELSE /\ last_response'.status = 500
                  /\ analyses' = analyses
      ]_vars

\* C30 as stated: generate-report and generate-optimized-resume answer 404
\* unless an analysis record with the id exists; download-report answers 404
\* unless a report was generated for the id, download-optimized-resume unless
\* an optimized resume was generated for it; so every download answered 200
\* comes after a generate answered 200, and every generate answered 200 after
\* an analyze answered 200, for the same id.
C30_Original ==
    /\ last_response # NoValue =>
          LET r == last_response IN
          /\ r.endpoint \in {"/api/generate-report", "/api/generate-optimized-resume"} =>
                (~AnalysisPathExists(r.id) => r.status = 404)
          /\ r.endpoint = "/api/download-report" =>
                (Success("/api/generate-report", r.id) \notin succeeded => r.status = 404)
          /\ r.endpoint = "/api/download-optimized-resume" =>
                (Success("/api/generate-optimized-resume", r.id) \notin succeeded => r.status = 404)
    /\ \A done \in succeeded :
          /\ done.endpoint = "/api/download-report" =>
                Success("/api/generate-report", done.id) \in succeeded
          /\ done.endpoint = "/api/download-optimized-resume" =>
                Success("/api/generate-optimized-resume", done.id) \in succeeded
          /\ done.endpoint \in {"/api/generate-report", "/api/generate-optimized-resume"} =>
                Success("/api/analyze", done.id) \in succeeded

====
